---- MODULE Spec2Model ----
(***************************************************************************)
(* A model of the rag-chatbot2 front end and of the retrieval pipeline it  *)
(* talks to.                                                               *)
(*                                                                         *)
(*  - frontend/utils/cell.ts: the cell-reference arithmetic, modelled on   *)
(*    strings as sequences of one-character strings (SpecCell).            *)
(*  - frontend/components/Chat.tsx and LeadStatusSearch.tsx: the two       *)
(*    query screens, each handler split at its await (SpecAsk).            *)
(*  - the retrieval pipeline behind them (Retriever, AnswerSynthesizer,    *)
(*    IngestionPipeline, VectorIndex): its code is not part of the front   *)
(*    end, so it is modelled from its specification (SpecAsk, SpecIngest,  *)
(*    SpecReindex).                                                        *)
(*  - the VectorIndex's search and the Chunker's split, also modelled      *)
(*    from their specification (SpecVectorSearch, SpecChunker).            *)
(*  - frontend/utils/gemini.ts: embedText and embedMany (SpecEmbedding).   *)
(*  - the API client (resolveBackendBase, getErrorCode and the calls with  *)
(*    a timeout), each call split at its await of fetch (SpecClient).      *)
(*  - the API routes of the front end: the proxies, the chat route and     *)
(*    the cell route (SpecRoutes).                                         *)
(*  - getErrorCode and getLocalizedErrorMessage on the errors a catch      *)
(*    block can hold (SpecErrors).                                         *)
(*  - the Chat component alone, with the fairness of a chat() that always  *)
(*    ends (SpecChat), and LeadStatusSearch alone with a history that      *)
(*    fills (SpecSearch).                                                  *)
(*  - components/Uploader.tsx (SpecUploader).                              *)
(*                                                                         *)
(* A text is a sequence of tokens: single characters where the code looks  *)
(* at characters (trim), opaque phrases elsewhere.                         *)
(***************************************************************************)
EXTENDS Integers, Sequences, FiniteSets, TLC

VARIABLES
    input,          \* cell.ts: the argument of the first call
    cur,            \* cell.ts: the value the last call returned (or threw)
    calls,          \* cell.ts: the names of the calls made so far, in order
    collection,     \* VectorIndex: the entries of the collection, in insertion order
    req,            \* the query in flight from each screen and the backend's work on it
    messages,       \* Chat: useState<ChatMessage[]>
    inputMessage,   \* Chat: useState('')
    isLoading,      \* Chat: useState(false)
    question,       \* LeadStatusSearch: useState('')
    searchLoading,  \* LeadStatusSearch: isLoading
    response,       \* LeadStatusSearch: useState<any>(null)
    error,          \* LeadStatusSearch: useState<string | null>(null)
    searchHistory,  \* LeadStatusSearch: useState<SearchHistory[]>([])
    activeTab,      \* Home: useState<'legacy' | 'leads'>('leads')
    sourceTexts,    \* the text of each source document, as the chunks it yields
    documents,      \* the Document records: the text each source was indexed with
    run,            \* IngestionPipeline: the ingestion run
    reindex,        \* VectorIndex: the rebuild of a full reindex
    scan,           \* VectorIndex.search: the search in progress
    vectorIndex,    \* VectorIndex: entries with their vectors, and the last search
    chunker,        \* Chunker.split: the text and the chunks produced so far
    embedding,      \* gemini.ts: the embedMany call in progress
    client,         \* the API client: the call in progress and its environment
    route,          \* the API routes: the request being handled
    errorCall,      \* the API client: the error getErrorCode is applied to
    uploader,       \* Uploader: its state and the operations in flight
    now             \* Date.now(), as a count of the readings made of it

cellVars == <<input, cur, calls>>

indexVars == <<collection>>

askVars == <<req>>

chatVars == <<messages, inputMessage, isLoading>>

searchVars == <<question, searchLoading, response, error, searchHistory>>

homeVars == <<activeTab>>

ingestVars == <<sourceTexts, documents, run>>

reindexVars == <<reindex, scan>>

serviceVars == <<vectorIndex, chunker, embedding, client, route>>

frontVars == <<errorCall, uploader>>

vars == <<input, cur, calls, collection, req, messages, inputMessage, isLoading,
          question, searchLoading, response, error, searchHistory, activeTab,
          sourceTexts, documents, run, reindex, scan,
          vectorIndex, chunker, embedding, client, route,
          errorCall, uploader, now>>

(***************************************************************************)
(* Bounds                                                                  *)
(***************************************************************************)
MaxLen == 4         \* longest reference string drawn as an input
MaxCol == 702       \* largest column number drawn as an input
MaxSmallRow == 12   \* rows 0..MaxSmallRow are drawn, plus RowLandmarks
MaxCalls == 2       \* calls composed in one behaviour

(***************************************************************************)
(* Characters and strings                                                  *)
(***************************************************************************)
UpperLetters == <<"A","B","C","D","E","F","G","H","I","J","K","L","M",
                  "N","O","P","Q","R","S","T","U","V","W","X","Y","Z">>

LowerLetters == <<"a","b","c","d","e","f","g","h","i","j","k","l","m",
                  "n","o","p","q","r","s","t","u","v","w","x","y","z">>

DigitChars == <<"0","1","2","3","4","5","6","7","8","9">>

WhiteSpace == {" ", "\t"}

IsUpperLetter(c) == \E i \in 1..26 : UpperLetters[i] = c

IsDigit(c) == \E i \in 1..10 : DigitChars[i] = c

\* c.charCodeAt(0) - 'A'.charCodeAt(0) + 1 for an upper-case letter c
LetterValue(c) == CHOOSE i \in 1..26 : UpperLetters[i] = c

\* the value of a decimal digit character
DigitValue(c) == (CHOOSE i \in 1..10 : DigitChars[i] = c) - 1

\* String.prototype.toUpperCase, one character
ToUpperChar(c) ==
    IF \E i \in 1..26 : LowerLetters[i] = c
    THEN UpperLetters[CHOOSE i \in 1..26 : LowerLetters[i] = c]
    ELSE c

ToUpperCase(s) == [i \in 1..Len(s) |-> ToUpperChar(s[i])]

RECURSIVE TrimStart(_)
TrimStart(s) ==
    IF s # <<>> /\ Head(s) \in WhiteSpace THEN TrimStart(Tail(s)) ELSE s

RECURSIVE TrimEnd(_)
TrimEnd(s) ==
    IF s # <<>> /\ s[Len(s)] \in WhiteSpace
    THEN TrimEnd(SubSeq(s, 1, Len(s) - 1))
    ELSE s

\* a trim that removes nothing
Trim_Nothing(s) == s

\* String.prototype.trim
Trim(s) == TrimEnd(TrimStart(s))

\* cell.trim().toUpperCase()
Normalize(s) == ToUpperCase(Trim(s))

\* the length of the longest prefix of s made of letters A-Z
RECURSIVE LetterPrefixLen(_)
LetterPrefixLen(s) ==
    IF s # <<>> /\ IsUpperLetter(Head(s))
    THEN 1 + LetterPrefixLen(Tail(s))
    ELSE 0

\* normalizedCell.match(/^([A-Z]+)(\d+)$/)
Match(s) ==
    LET k == LetterPrefixLen(s) IN
    IF k >= 1 /\ k < Len(s) /\ \A i \in (k + 1)..Len(s) : IsDigit(s[i])
    THEN [ok |-> TRUE, columnLetters |-> SubSeq(s, 1, k),
          rowString |-> SubSeq(s, k + 1, Len(s))]
    ELSE [ok |-> FALSE, columnLetters |-> <<>>, rowString |-> <<>>]

\* parseInt(rowString, 10) on a string of decimal digits
RECURSIVE ParseInt(_)
ParseInt(ds) ==
    IF ds = <<>> THEN 0
    ELSE ParseInt(SubSeq(ds, 1, Len(ds) - 1)) * 10 + DigitValue(ds[Len(ds)])

\* NumberToString emitting the digits lowest-order first
RECURSIVE NumberToString_LowFirst(_)
NumberToString_LowFirst(n) ==
    IF n < 10 THEN <<DigitChars[n + 1]>>
    ELSE <<DigitChars[(n % 10) + 1]>> \o NumberToString_LowFirst(n \div 10)

\* `${row}` for an integer row >= 0: the decimal digits, no leading zero
RECURSIVE NumberToString(_)
NumberToString(n) ==
    IF n < 10 THEN <<DigitChars[n + 1]>>
    ELSE NumberToString(n \div 10) \o <<DigitChars[(n % 10) + 1]>>

(***************************************************************************)
(* Values passed between the calls                                         *)
(***************************************************************************)
Val(tag, s, n, row, column, b, msg) ==
    [tag |-> tag, s |-> s, n |-> n, row |-> row, column |-> column,
     b |-> b, msg |-> msg]

StrVal(s)        == Val("str", s, 0, 0, 0, FALSE, "")
NumVal(n)        == Val("num", <<>>, n, 0, 0, FALSE, "")
ArgsVal(r, c)    == Val("args", <<>>, 0, r, c, FALSE, "")
RefVal(r, c, s)  == Val("ref", s, 0, r, c, FALSE, "")
BoolVal(b)       == Val("bool", <<>>, 0, 0, 0, b, "")
Thrown(msg)      == Val("throw", <<>>, 0, 0, 0, FALSE, msg)

\* the three messages of cell.ts's parse errors, and createCellReference's
ErrEmpty     == "cell reference is empty or invalid"
ErrFormat    == "malformed cell reference"
ErrRow       == "row number must be 1 or more"
ErrRowColumn == "row and column must be 1 or more"

(***************************************************************************)
(* frontend/utils/cell.ts                                                  *)
(***************************************************************************)
\* parseRowFromCell testing rowNumber < 0 instead of rowNumber < 1
parseRowFromCell_AllowsZero(cell) ==
    IF cell = <<>> THEN Thrown(ErrEmpty)
    ELSE LET match == Match(Normalize(cell)) IN
         IF ~match.ok THEN Thrown(ErrFormat)
         ELSE LET rowNumber == ParseInt(match.rowString) IN
              IF rowNumber < 0 THEN Thrown(ErrRow)
              ELSE NumVal(rowNumber)

parseRowFromCell(cell) ==
    IF cell = <<>> THEN Thrown(ErrEmpty)
    ELSE LET match == Match(Normalize(cell)) IN
         IF ~match.ok THEN Thrown(ErrFormat)
         ELSE LET rowNumber == ParseInt(match.rowString) IN
              IF rowNumber < 1 THEN Thrown(ErrRow)
              ELSE NumVal(rowNumber)

\* ColumnNumber with charCode = letter - 'A' (a zero symbol)
RECURSIVE ColumnNumber_ZeroBased(_)
ColumnNumber_ZeroBased(columnLetters) ==
    IF columnLetters = <<>> THEN 0
    ELSE ColumnNumber_ZeroBased(
             SubSeq(columnLetters, 1, Len(columnLetters) - 1)) * 26
         + (LetterValue(columnLetters[Len(columnLetters)]) - 1)

\* the for loop of parseColumnFromCell: columnNumber * 26 + charCode
RECURSIVE ColumnNumber(_)
ColumnNumber(columnLetters) ==
    IF columnLetters = <<>> THEN 0
    ELSE ColumnNumber(SubSeq(columnLetters, 1, Len(columnLetters) - 1)) * 26
         + LetterValue(columnLetters[Len(columnLetters)])

parseColumnFromCell(cell) ==
    IF cell = <<>> THEN Thrown(ErrEmpty)
    ELSE LET match == Match(Normalize(cell)) IN
         IF ~match.ok THEN Thrown(ErrFormat)
         ELSE NumVal(ColumnNumber(match.columnLetters))

\* ColumnLetters dividing the column before its adjustment to 0-based
RECURSIVE ColumnLetters_LateDecrement(_, _)
ColumnLetters_LateDecrement(tempColumn, columnLetters) ==
    IF tempColumn > 0
    THEN LET t == tempColumn - 1 IN
         ColumnLetters_LateDecrement(tempColumn \div 26,
             <<UpperLetters[(t % 26) + 1]>> \o columnLetters)
    ELSE columnLetters

\* ColumnLetters appending each letter instead of prepending it
RECURSIVE ColumnLetters_Appending(_, _)
ColumnLetters_Appending(tempColumn, columnLetters) ==
    IF tempColumn > 0
    THEN LET t == tempColumn - 1 IN
         ColumnLetters_Appending(t \div 26,
             columnLetters \o <<UpperLetters[(t % 26) + 1]>>)
    ELSE columnLetters

\* the while loop of createCellReference, from (tempColumn, columnLetters)
RECURSIVE ColumnLetters(_, _)
ColumnLetters(tempColumn, columnLetters) ==
    IF tempColumn > 0
    THEN LET t == tempColumn - 1 IN
         ColumnLetters(t \div 26, <<UpperLetters[(t % 26) + 1]>> \o columnLetters)
    ELSE columnLetters

createCellReference(row, column) ==
    IF row < 1 \/ column < 1 THEN Thrown(ErrRowColumn)
    ELSE StrVal(ColumnLetters(column, <<>>) \o NumberToString(row))

isValidCellReference(cell) ==
    IF parseRowFromCell(cell).tag = "throw" THEN BoolVal(FALSE)
    ELSE IF parseColumnFromCell(cell).tag = "throw" THEN BoolVal(FALSE)
    ELSE BoolVal(TRUE)

\* parseCellReference reading the row without parseRowFromCell's check
parseCellReference_UncheckedRow(cell) ==
    LET column == parseColumnFromCell(cell) IN
    IF column.tag = "throw" THEN column
    ELSE RefVal(ParseInt(Match(Normalize(cell)).rowString), column.n,
                Normalize(cell))

parseCellReference(cell) ==
    LET row == parseRowFromCell(cell) IN
    IF row.tag = "throw" THEN row
    ELSE LET column == parseColumnFromCell(cell) IN
         IF column.tag = "throw" THEN column
         ELSE RefVal(row.n, column.n, Normalize(cell))

(***************************************************************************)
(* Optional values: null, undefined, a string (a text) or an array         *)
(***************************************************************************)
Null      == [k |-> "null", v |-> <<>>]
Undefined == [k |-> "undefined", v |-> <<>>]
Str(s)    == [k |-> "string", v |-> s]
Arr(a)    == [k |-> "array", v |-> a]

IsNullish(x) == x.k \in {"null", "undefined"}

\* x ?? undefined
OrUndefined(x) == IF IsNullish(x) THEN Undefined ELSE x

\* the truthiness of a string-or-null value: null, undefined and '' are falsy
Truthy(x) == x.k = "string" /\ x.v # <<>>

(***************************************************************************)
(* The collection and its chunks (modelled from the specification)         *)
(***************************************************************************)
Docs == {"d1", "d2"}

MaxChunks == 2      \* a source is split into 0..MaxChunks chunks
MaxContext == 2     \* finalK: the most chunks a retrieval returns

\* the stable chunk id: documentId + offset
ChunkId(doc, offset) == <<doc, offset>>

\* the chunk of a source at an offset; text stands for the text it was cut from
Chunk(doc, offset, text) ==
    [id |-> ChunkId(doc, offset), source |-> doc, text |-> text]

\* Chunker.split on a source whose text yields n chunks
ChunksOf(doc, n) == [i \in 1..n |-> Chunk(doc, i - 1, n)]

\* the subsequence of s at the positions in idx
RECURSIVE Pick(_, _)
Pick(s, idx) ==
    IF s = <<>> THEN <<>>
    ELSE LET rest == Pick(SubSeq(s, 1, Len(s) - 1), idx) IN
         IF Len(s) \in idx THEN Append(rest, s[Len(s)]) ELSE rest

(***************************************************************************)
(* Retriever and AnswerSynthesizer (modelled from the specification)       *)
(***************************************************************************)
Envelope(status, answer, items, sources, message, reason) ==
    [status |-> status, answer |-> answer, items |-> items,
     sources |-> sources, message |-> message, reason |-> reason]

NoEnvelope == Envelope("none", Null, Arr(<<>>), Arr(<<>>), Null, Null)

AnswerTexts == {<<"answer">>}

NoContextMessage == <<"no relevant context">>

LlmFailures == {"llm_unavailable", "processing_error"}

\* what the chat-completion provider can do with one call
Completions ==
    {[ok |-> TRUE, text |-> a, reason |-> ""] : a \in AnswerTexts}
    \cup {[ok |-> FALSE, text |-> <<>>, reason |-> r] : r \in LlmFailures}

\* the results a retrieval can return: the candidates that pass the
\* threshold, at most finalK of them (possibly none)
Retrievals(coll) ==
    {Pick(coll, idx) : idx \in {i \in SUBSET (1..Len(coll)) :
                                    Cardinality(i) <= MaxContext}}

SourcesOf(context) == [i \in 1..Len(context) |-> context[i].source]

ItemsOf(context) ==
    [i \in 1..Len(context) |->
        [company |-> context[i].source, lead_status |-> "uncalled",
         source_id |-> context[i].id]]

\* AnswerSynthesizer.answer with an empty context: no provider call
NoContextEnvelope(message) ==
    Envelope("ok", Null, Arr(<<>>), Arr(<<>>), message, Str(<<"no_context">>))

\* AnswerSynthesizer.answer with a context and the provider's completion
GroundedEnvelope(context, completion) ==
    IF completion.ok
    THEN Envelope("ok", Str(completion.text), Arr(ItemsOf(context)),
                  Arr(SourcesOf(context)), Null, Null)
    ELSE Envelope("error", Null, Arr(<<>>), Arr(SourcesOf(context)),
                  Str(<<completion.reason>>), Str(<<completion.reason>>))

(***************************************************************************)
(* The query in flight from each screen                                    *)
(***************************************************************************)
Screens == {"chat", "search"}

Request(stage, query, context, envelope, completions, failure) ==
    [stage |-> stage, query |-> query, context |-> context,
     envelope |-> envelope, completions |-> completions, failure |-> failure]

NoRequest == Request("idle", <<>>, <<>>, NoEnvelope, 0, <<>>)

Sent(query) == Request("sent", query, <<>>, NoEnvelope, 0, <<>>)

InFlight(r) == r.stage \in {"sent", "retrieved", "answered"}

\* the ways chat() fails: the message of the error it throws
Failures == {<<"timeout">>, <<"fetch failed">>, <<"HTTP 500">>}

\* the ways fetch('/api/search') and res.json() fail
SearchFailures == {<<"fetch failed">>, <<"Unexpected token">>}

\* the JSON body { error, detail } of a response that is not 2xx
ErrorBody ==
    Envelope("none", Undefined, Undefined, Undefined, Undefined, Undefined)

(***************************************************************************)
(* The states no behaviour of a subsystem has left                         *)
(***************************************************************************)
IdleCell == input = StrVal(<<>>) /\ cur = StrVal(<<>>) /\ calls = <<>>

IdleIndex == collection = <<>>

IdleAsk == req = [s \in Screens |-> NoRequest]

NoResponse == [present |-> FALSE, data |-> NoEnvelope]

\* Chat.tsx:8-10
IdleChat == messages = <<>> /\ inputMessage = <<>> /\ isLoading = FALSE

\* LeadStatusSearch.tsx:14-19
IdleSearch ==
    /\ question = <<>>
    /\ searchLoading = FALSE
    /\ response = NoResponse
    /\ error = Null
    /\ searchHistory = <<>>

\* the Home page shows the company search first
IdleHome == activeTab = "leads"

NoDocument == -1

NoRun ==
    [state |-> "none", number |-> 0, queue |-> <<>>, texts |-> <<>>,
     cursor |-> 0, written |-> 0, undo |-> <<>>, completed |-> {},
     failed |-> "", before |-> <<>>, indexed |-> <<>>]

IdleIngest ==
    /\ sourceTexts = [d \in Docs |-> 0]
    /\ documents = [d \in Docs |-> NoDocument]
    /\ run = NoRun

NoReindex == [state |-> "idle", number |-> 0, staging |-> <<>>, todo |-> <<>>]

NoScan == [state |-> "idle", view |-> <<>>, seen |-> <<>>, versions |-> {}]

IdleReindex == reindex = NoReindex /\ scan = NoScan

\* no search made, no text split, no embedding, no API call, no request
NoVectorSearch ==
    [entries |-> <<>>, state |-> "idle", queryVector |-> <<>>, k |-> 0,
     filter |-> "", result |-> <<>>]

NoSplit ==
    [text |-> <<>>, chunkSize |-> 1, overlap |-> 0, state |-> "idle",
     start |-> 0, chunks |-> <<>>]

NoEmbedding ==
    [key |-> Undefined, fn |-> "", texts |-> <<>>, pos |-> 0,
     embeddings |-> <<>>, state |-> "idle", sent |-> <<>>, value |-> <<>>,
     message |-> ""]

NoCall ==
    [env |-> Undefined, origin |-> <<>>, fn |-> "", state |-> "idle",
     cause |-> "", endpoint |-> <<>>, signal |-> 0,
     response |-> [status |-> 0, parses |-> FALSE],
     error |-> [name |-> "", message |-> <<>>, status |-> 0,
                code |-> Undefined]]

NoRouteRequest ==
    [name |-> "", env |-> Undefined, key |-> Undefined,
     request |-> [readable |-> TRUE, message |-> Undefined, cell |-> Null],
     state |-> "idle", forwarded |-> <<>>,
     backend |-> [answered |-> FALSE, status |-> 0, text |-> <<>>],
     status |-> 0,
     body |-> [k |-> "text", text |-> <<>>, error |-> "",
               detail |-> Undefined]]

IdleServices ==
    /\ vectorIndex = NoVectorSearch
    /\ chunker = NoSplit
    /\ embedding = NoEmbedding
    /\ client = NoCall
    /\ route = NoRouteRequest

\* getErrorCode applied to nothing yet; the Uploader as it is mounted
NoErrorCall ==
    [arg |-> [name |-> "", message |-> <<>>, status |-> 0,
              code |-> Undefined],
     state |-> "idle", code |-> Undefined, message |-> <<>>]

NoUploader ==
    [isUploading |-> FALSE, isIngesting |-> FALSE, message |-> "",
     pending |-> {}, settled |-> <<>>]

IdleFront == errorCall = NoErrorCall /\ uploader = NoUploader

backendVars == <<sourceTexts, documents, run, reindex, scan>>

otherThanCell == <<collection, req, messages, inputMessage, isLoading,
                   question, searchLoading, response, error, searchHistory,
                   activeTab, sourceTexts, documents, run, reindex, scan,
                   vectorIndex, chunker, embedding, client, route,
                   errorCall, uploader, now>>

(***************************************************************************)
(* SpecCell: the inputs of cell.ts and the calls applied to them           *)
(***************************************************************************)
InputChars == {"A", "B", "Z", "a", "0", "1", "2", "-", " "}

RECURSIVE StringsUpTo(_)
StringsUpTo(n) ==
    IF n = 0 THEN {<<>>}
    ELSE LET shorter == StringsUpTo(n - 1) IN
         shorter \cup {Append(s, c) : s \in {t \in shorter : Len(t) = n - 1},
                                      c \in InputChars}

RefInputs == StringsUpTo(MaxLen)

RowLandmarks == {99, 100, 101, 999, 1000, 1001, 9999, 10000}

RowInputs == (0..MaxSmallRow) \cup RowLandmarks

ColInputs == 0..MaxCol

InitCell ==
    /\ input \in {StrVal(s) : s \in RefInputs}
                 \cup {ArgsVal(r, c) : r \in RowInputs, c \in ColInputs}
    /\ cur = input
    /\ calls = <<>>
    /\ IdleIndex
    /\ IdleAsk
    /\ IdleChat
    /\ IdleSearch
    /\ IdleHome
    /\ IdleServices
    /\ IdleFront
    /\ now = 0
    /\ IdleIngest
    /\ IdleReindex

\* a call is made on the value at hand; a throw ends the behaviour
CanCall(tag) == Len(calls) < MaxCalls /\ cur.tag = tag

ParseRowFromCell ==
    /\ CanCall("str")
    /\ cur' = parseRowFromCell(cur.s)
    /\ calls' = Append(calls, "parseRowFromCell")
    /\ UNCHANGED <<input, otherThanCell>>

ParseColumnFromCell ==
    /\ CanCall("str")
    /\ cur' = parseColumnFromCell(cur.s)
    /\ calls' = Append(calls, "parseColumnFromCell")
    /\ UNCHANGED <<input, otherThanCell>>

IsValidCellReference ==
    /\ CanCall("str")
    /\ cur' = isValidCellReference(cur.s)
    /\ calls' = Append(calls, "isValidCellReference")
    /\ UNCHANGED <<input, otherThanCell>>

ParseCellReference ==
    /\ CanCall("str")
    /\ cur' = parseCellReference(cur.s)
    /\ calls' = Append(calls, "parseCellReference")
    /\ UNCHANGED <<input, otherThanCell>>

CreateCellReference ==
    /\ CanCall("args") \/ CanCall("ref")
    /\ cur' = createCellReference(cur.row, cur.column)
    /\ calls' = Append(calls, "createCellReference")
    /\ UNCHANGED <<input, otherThanCell>>

NextCell ==
    \/ ParseRowFromCell
    \/ ParseColumnFromCell
    \/ IsValidCellReference
    \/ ParseCellReference
    \/ CreateCellReference

SpecCell == InitCell /\ [][NextCell]_vars

(***************************************************************************)
(* lib/api.ts chat(): the conversion of the backend's AskResponse          *)
(***************************************************************************)
ChatResponse(status, answer, items, sources, message) ==
    [status |-> status, answer |-> answer, items |-> items,
     sources |-> sources, message |-> message]

\* ask.sources?.map((s: string) => ({ source: s, content: '' })) ?? undefined
SourceRefs(sources) ==
    IF IsNullish(sources) THEN Undefined
    ELSE Arr([i \in 1..Len(sources.v) |->
                 [source |-> sources.v[i], content |-> <<>>]])

ChatResponseOf(ask) ==
    ChatResponse(ask.status, OrUndefined(ask.answer), OrUndefined(ask.items),
                 SourceRefs(ask.sources), OrUndefined(ask.message))

(***************************************************************************)
(* components/Chat.tsx                                                     *)
(***************************************************************************)
MaxSubmits == 2     \* submits accepted in one behaviour

ChatInputs == {<<>>, <<" ">>, <<"q">>, <<" ", "q">>}

Placeholder == <<"(empty response)">>

ErrorPrefix == <<"(error) ">>

ChatMessage(role, content, sources, items) ==
    [role |-> role, content |-> content, sources |-> sources, items |-> items]

UserMessage(content) == ChatMessage("user", content, Undefined, Undefined)

\* AssistantContent without the fallback to response.message
AssistantContent_WithoutMessage(r) ==
    IF Truthy(r.answer) THEN r.answer.v ELSE Placeholder

\* response.answer || response.message || the placeholder
AssistantContent(r) ==
    IF Truthy(r.answer) THEN r.answer.v
    ELSE IF Truthy(r.message) THEN r.message.v
    ELSE Placeholder

AssistantMessage(r) ==
    ChatMessage("assistant", AssistantContent(r), r.sources, r.items)

\* the message of the catch block with the role of the user
ErrorChatMessage_RoleUser(errorMessage) ==
    ChatMessage("user", ErrorPrefix \o errorMessage, Undefined, Undefined)

ErrorChatMessage(errorMessage) ==
    ChatMessage("assistant", ErrorPrefix \o errorMessage, Undefined, Undefined)

\* onChange of the input, which is disabled while isLoading
TypeMessage ==
    /\ activeTab = "legacy"
    /\ ~isLoading
    /\ \E text \in ChatInputs : inputMessage' = text
    /\ UNCHANGED <<messages, isLoading, req>>
    /\ UNCHANGED <<cellVars, frontVars, now, serviceVars, indexVars, searchVars, homeVars, backendVars>>

\* handleSubmit up to its await
HandleSubmit ==
    /\ activeTab = "legacy"
    /\ Len(messages) < 2 * MaxSubmits
    /\ IF Trim(inputMessage) = <<>> \/ isLoading
       THEN UNCHANGED <<messages, inputMessage, isLoading, req>>
       ELSE /\ messages' = Append(messages, UserMessage(inputMessage))
            /\ inputMessage' = <<>>
            /\ isLoading' = TRUE
            /\ req' = [req EXCEPT !["chat"] = Sent(inputMessage)]
    /\ UNCHANGED <<cellVars, frontVars, now, serviceVars, indexVars, searchVars, homeVars, backendVars>>

\* handleSubmit after chat() has resolved with the converted response
ChatResolved ==
    /\ req["chat"].stage = "answered"
    /\ messages' = Append(messages,
                          AssistantMessage(ChatResponseOf(req["chat"].envelope)))
    /\ isLoading' = FALSE
    /\ req' = [req EXCEPT !["chat"].stage = "settled"]
    /\ UNCHANGED inputMessage
    /\ UNCHANGED <<cellVars, frontVars, now, serviceVars, indexVars, searchVars, homeVars, backendVars>>

\* handleSubmit after chat() has thrown: the catch and finally blocks
ChatRejected ==
    /\ InFlight(req["chat"])
    /\ \E failure \in Failures :
        /\ messages' = Append(messages, ErrorChatMessage(failure))
        /\ req' = [req EXCEPT !["chat"].stage = "failed",
                              !["chat"].failure = failure]
    /\ isLoading' = FALSE
    /\ UNCHANGED inputMessage
    /\ UNCHANGED <<cellVars, frontVars, now, serviceVars, indexVars, searchVars, homeVars, backendVars>>

(***************************************************************************)
(* components/LeadStatusSearch.tsx                                         *)
(***************************************************************************)
MaxSearches == 2    \* searches recorded in one behaviour of SpecAsk

MaxClock == 12      \* no search is started once the clock has been read so often

HistoryLimit == 10

Questions == {<<>>, <<" ">>, <<"q">>, <<"q", " ">>}

\* historyItem: its id and its timestamp are both the reading of the clock
SearchHistory(timestamp, q, data) ==
    [timestamp |-> timestamp, question |-> q, response |-> data]

\* [historyItem, ...prev.slice(0, 10)]: one entry too many is kept
WithHistoryItem_KeepsTen(prev, historyItem) ==
    <<historyItem>>
    \o SubSeq(prev, 1, IF Len(prev) < HistoryLimit THEN Len(prev)
                       ELSE HistoryLimit)

\* [historyItem, ...prev.slice(0, 9)]
WithHistoryItem(prev, historyItem) ==
    <<historyItem>>
    \o SubSeq(prev, 1, IF Len(prev) < HistoryLimit - 1 THEN Len(prev)
                       ELSE HistoryLimit - 1)

\* the "AI answer" block: rendered when response?.answer is truthy
DisplayedAnswer(r) ==
    IF r.present /\ Truthy(r.data.answer) THEN Str(r.data.answer.v) ELSE Null

\* onChange of the input, which is disabled while isLoading
TypeQuestion ==
    /\ activeTab = "leads"
    /\ ~searchLoading
    /\ \E text \in Questions : question' = text
    /\ UNCHANGED <<searchLoading, response, error, searchHistory, req>>
    /\ UNCHANGED <<cellVars, frontVars, now, serviceVars, indexVars, chatVars, homeVars, backendVars>>

\* handleSearch up to its await; the button and the input that call it are
\* disabled while isLoading, and the retry button shows only with an error
HandleSearch ==
    /\ activeTab = "leads"
    /\ ~searchLoading
    /\ now < MaxClock
    /\ IF Trim(question) = <<>>
       THEN UNCHANGED <<searchLoading, response, error, req>>
       ELSE /\ searchLoading' = TRUE
            /\ error' = Null
            /\ response' = NoResponse
            /\ req' = [req EXCEPT !["search"] = Sent(Trim(question))]
    /\ UNCHANGED <<question, searchHistory>>
    /\ UNCHANGED <<cellVars, frontVars, now, serviceVars, indexVars, chatVars, homeVars, backendVars>>

\* handleSearch from setResponse(data) to its end
RecordSearch(data) ==
    /\ response' = [present |-> TRUE, data |-> data]
    /\ searchHistory' =
           WithHistoryItem(searchHistory,
                           SearchHistory(now, req["search"].query, data))
    /\ now' = now + 1
    /\ question' = <<>>
    /\ searchLoading' = FALSE
    /\ UNCHANGED error

\* handleSearch after res.json() has resolved with the backend's envelope
SearchResolved ==
    /\ req["search"].stage = "answered"
    /\ RecordSearch(req["search"].envelope)
    /\ req' = [req EXCEPT !["search"].stage = "settled"]
    /\ UNCHANGED <<cellVars, frontVars, serviceVars, indexVars, chatVars, homeVars, backendVars>>

\* handleSearch after res.json() has resolved with the body of a response
\* that is not 2xx: the status of the response is not looked at
SearchResolvedNotOk ==
    /\ InFlight(req["search"])
    /\ RecordSearch(ErrorBody)
    /\ req' = [req EXCEPT !["search"].stage = "refused"]
    /\ UNCHANGED <<cellVars, frontVars, serviceVars, indexVars, chatVars, homeVars, backendVars>>

\* handleSearch after fetch or res.json() has thrown
SearchRejected ==
    /\ InFlight(req["search"])
    /\ \E failure \in SearchFailures :
        /\ error' = Str(failure)
        /\ req' = [req EXCEPT !["search"].stage = "failed",
                              !["search"].failure = failure]
    /\ searchLoading' = FALSE
    /\ UNCHANGED <<question, response, searchHistory>>
    /\ UNCHANGED <<cellVars, frontVars, now, serviceVars, indexVars, chatVars, homeVars, backendVars>>

(***************************************************************************)
(* The Home page: one of the two screens is mounted at a time              *)
(***************************************************************************)
Tabs == {"leads", "legacy"}

\* onClick of a tab button: the screen that is left is unmounted, its state
\* is lost and the answer to its request, if any, reaches no component
SetActiveTab(tab) ==
    /\ activeTab' = tab
    /\ IF tab = activeTab
       THEN UNCHANGED <<req, chatVars, searchVars>>
       ELSE IF activeTab = "legacy"
       THEN /\ messages' = <<>>
            /\ inputMessage' = <<>>
            /\ isLoading' = FALSE
            /\ req' = [req EXCEPT !["chat"] = NoRequest]
            /\ UNCHANGED searchVars
       ELSE /\ question' = <<>>
            /\ searchLoading' = FALSE
            /\ response' = NoResponse
            /\ error' = Null
            /\ searchHistory' = <<>>
            /\ req' = [req EXCEPT !["search"] = NoRequest]
            /\ UNCHANGED chatVars
    /\ UNCHANGED <<cellVars, frontVars, now, serviceVars, indexVars, backendVars>>

(***************************************************************************)
(* The backend's work on a query (modelled from the specification)         *)
(***************************************************************************)
\* Retriever.retrieve: the chunks that pass the threshold, possibly none
Retrieve(s) ==
    /\ req[s].stage = "sent"
    /\ \E context \in Retrievals(collection) :
        req' = [req EXCEPT ![s].stage = "retrieved", ![s].context = context]
    /\ UNCHANGED <<cellVars, frontVars, now, serviceVars, indexVars, chatVars, searchVars, homeVars, backendVars>>

\* AnswerSynthesizer.answer
Answer(s) ==
    /\ req[s].stage = "retrieved"
    /\ IF req[s].context = <<>>
       THEN \E message \in {Null, Str(NoContextMessage)} :
                req' = [req EXCEPT
                           ![s].stage = "answered",
                           ![s].envelope = NoContextEnvelope(message)]
       ELSE \E completion \in Completions :
                req' = [req EXCEPT
                           ![s].stage = "answered",
                           ![s].completions = @ + 1,
                           ![s].envelope =
                               GroundedEnvelope(req[s].context, completion)]
    /\ UNCHANGED <<cellVars, frontVars, now, serviceVars, indexVars, chatVars, searchVars, homeVars, backendVars>>

(***************************************************************************)
(* SpecAsk: both screens querying a collection that does not change        *)
(***************************************************************************)
AskCollections ==
    {<<>>, ChunksOf("d1", 1), ChunksOf("d1", MaxChunks) \o ChunksOf("d2", 1)}

InitAsk ==
    /\ collection \in AskCollections
    /\ IdleAsk
    /\ IdleChat
    /\ IdleSearch
    /\ IdleHome
    /\ IdleServices
    /\ IdleFront
    /\ now = MaxClock - MaxSearches
    /\ IdleIngest
    /\ IdleReindex
    /\ IdleCell

NextAsk ==
    \/ TypeMessage
    \/ HandleSubmit
    \/ ChatResolved
    \/ ChatRejected
    \/ TypeQuestion
    \/ HandleSearch
    \/ SearchResolved
    \/ SearchResolvedNotOk
    \/ SearchRejected
    \/ \E tab \in Tabs : SetActiveTab(tab)
    \/ \E s \in Screens : Retrieve(s)
    \/ \E s \in Screens : Answer(s)

SpecAsk == InitAsk /\ [][NextAsk]_vars

(***************************************************************************)
(* VectorIndex.upsert and the rollback of a source (modelled from the      *)
(* specification)                                                          *)
(***************************************************************************)
Range(s) == {s[i] : i \in 1..Len(s)}

Ids(coll) == {coll[i].id : i \in 1..Len(coll)}

EntriesOf(coll, doc) == SelectSeq(coll, LAMBDA e : e.source = doc)

\* upsert that adds the entry whether or not its id is already there
Upsert_Appends(coll, entry) == Append(coll, entry)

\* upsert of one entry on its chunk id
Upsert(coll, entry) ==
    IF \E i \in 1..Len(coll) : coll[i].id = entry.id
    THEN [i \in 1..Len(coll) |->
             IF coll[i].id = entry.id THEN entry ELSE coll[i]]
    ELSE Append(coll, entry)

\* rollback that restores the collection to the start of the run
Rollback_WholeRun(coll, doc, undo) == run.before

\* rollback of one source: its entries are again those in undo, the
\* entries the collection held for it when its ingestion began
Rollback(coll, doc, undo) ==
    LET restored == [i \in 1..Len(coll) |->
                        IF \E u \in Range(undo) : u.id = coll[i].id
                        THEN CHOOSE u \in Range(undo) : u.id = coll[i].id
                        ELSE coll[i]]
    IN  SelectSeq(restored, LAMBDA e : e.source # doc \/ e \in Range(undo))

(***************************************************************************)
(* IngestionPipeline (modelled from the specification)                     *)
(***************************************************************************)
MaxRuns == 3        \* ingestion runs in one behaviour

RunStates == {"Pending", "Chunking", "Embedding", "Indexing", "Done", "Failed"}

Active(r) == r.state \in {"Pending", "Chunking", "Embedding", "Indexing"}

\* the sources of a run: one or more documents, each once
DocQueues ==
    {<<d>> : d \in Docs}
    \cup {<<d, e>> : <<d, e>> \in {p \in Docs \X Docs : p[1] # p[2]}}

CurrentDoc == run.queue[run.cursor]

CurrentChunks == ChunksOf(CurrentDoc, run.texts[CurrentDoc])

\* a source document is edited between runs
EditSource(doc, text) ==
    /\ ~Active(run)
    /\ sourceTexts[doc] # text
    /\ sourceTexts' = [sourceTexts EXCEPT ![doc] = text]
    /\ UNCHANGED <<documents, run, collection>>
    /\ UNCHANGED <<cellVars, frontVars, now, serviceVars, askVars, chatVars, searchVars, homeVars, reindexVars>>

\* ingest(sources): the run is created over the sources as they now are
StartRun(queue) ==
    /\ ~Active(run)
    /\ run.number < MaxRuns
    /\ run' = [state |-> "Pending", number |-> run.number + 1, queue |-> queue,
               texts |-> sourceTexts, cursor |-> 0, written |-> 0,
               undo |-> <<>>, completed |-> {}, failed |-> "",
               before |-> collection, indexed |-> documents]
    /\ UNCHANGED <<sourceTexts, documents, collection>>
    /\ UNCHANGED <<cellVars, frontVars, now, serviceVars, askVars, chatVars, searchVars, homeVars, reindexVars>>

BeginChunking ==
    /\ run.state = "Pending"
    /\ run' = [run EXCEPT !.state = "Chunking"]
    /\ UNCHANGED <<sourceTexts, documents, collection>>
    /\ UNCHANGED <<cellVars, frontVars, now, serviceVars, askVars, chatVars, searchVars, homeVars, reindexVars>>

BeginEmbedding ==
    /\ run.state = "Chunking"
    /\ run' = [run EXCEPT !.state = "Embedding"]
    /\ UNCHANGED <<sourceTexts, documents, collection>>
    /\ UNCHANGED <<cellVars, frontVars, now, serviceVars, askVars, chatVars, searchVars, homeVars, reindexVars>>

\* indexing starts with the first source of the run
BeginIndexing ==
    /\ run.state = "Embedding"
    /\ run' = [run EXCEPT !.state = "Indexing", !.cursor = 1, !.written = 0,
                          !.undo = EntriesOf(collection, run.queue[1])]
    /\ UNCHANGED <<sourceTexts, documents, collection>>
    /\ UNCHANGED <<cellVars, frontVars, now, serviceVars, askVars, chatVars, searchVars, homeVars, reindexVars>>

\* one chunk of the current source is upserted
IndexChunk ==
    /\ run.state = "Indexing"
    /\ run.cursor <= Len(run.queue)
    /\ run.written < Len(CurrentChunks)
    /\ collection' = Upsert(collection, CurrentChunks[run.written + 1])
    /\ run' = [run EXCEPT !.written = @ + 1]
    /\ UNCHANGED <<sourceTexts, documents>>
    /\ UNCHANGED <<cellVars, frontVars, now, serviceVars, askVars, chatVars, searchVars, homeVars, reindexVars>>

\* the current source is complete and the next one becomes current
CommitSource ==
    /\ run.state = "Indexing"
    /\ run.cursor < Len(run.queue)
    /\ run.written = Len(CurrentChunks)
    /\ documents' = [documents EXCEPT ![CurrentDoc] = run.texts[CurrentDoc]]
    /\ run' = [run EXCEPT
                  !.completed = @ \cup {CurrentDoc},
                  !.cursor = @ + 1,
                  !.written = 0,
                  !.undo = EntriesOf(collection, run.queue[run.cursor + 1])]
    /\ UNCHANGED <<sourceTexts, collection>>
    /\ UNCHANGED <<cellVars, frontVars, now, serviceVars, askVars, chatVars, searchVars, homeVars, reindexVars>>

\* the last source of the run is complete, and with it the run
FinishRun ==
    /\ run.state = "Indexing"
    /\ run.cursor = Len(run.queue)
    /\ run.written = Len(CurrentChunks)
    /\ documents' = [documents EXCEPT ![CurrentDoc] = run.texts[CurrentDoc]]
    /\ run' = [run EXCEPT
                  !.state = "Done",
                  !.completed = @ \cup {CurrentDoc},
                  !.cursor = @ + 1,
                  !.written = 0,
                  !.undo = <<>>]
    /\ UNCHANGED <<sourceTexts, collection>>
    /\ UNCHANGED <<cellVars, frontVars, now, serviceVars, askVars, chatVars, searchVars, homeVars, reindexVars>>

\* a run that can fail only once it is indexing
FailRun_OnlyWhileIndexing ==
    /\ run.state = "Indexing"
    /\ collection' = Rollback(collection, CurrentDoc, run.undo)
    /\ run' = [run EXCEPT !.state = "Failed", !.failed = CurrentDoc]
    /\ UNCHANGED <<sourceTexts, documents>>
    /\ UNCHANGED <<cellVars, frontVars, now, serviceVars, askVars, chatVars, searchVars, homeVars, reindexVars>>

\* a source fails: before indexing any source of the run can be the one,
\* while indexing it is the current one, whose partial writes are rolled back
FailRun ==
    /\ Active(run)
    /\ IF run.state = "Indexing"
       THEN /\ collection' = Rollback(collection, CurrentDoc, run.undo)
            /\ run' = [run EXCEPT !.state = "Failed", !.failed = CurrentDoc]
       ELSE /\ \E doc \in Range(run.queue) :
                   run' = [run EXCEPT !.state = "Failed", !.failed = doc]
            /\ UNCHANGED collection
    /\ UNCHANGED <<sourceTexts, documents>>
    /\ UNCHANGED <<cellVars, frontVars, now, serviceVars, askVars, chatVars, searchVars, homeVars, reindexVars>>

InitIngest ==
    /\ collection = <<>>
    /\ sourceTexts \in [Docs -> 0..MaxChunks]
    /\ documents = [d \in Docs |-> NoDocument]
    /\ run = NoRun
    /\ IdleReindex
    /\ IdleAsk
    /\ IdleChat
    /\ IdleSearch
    /\ IdleHome
    /\ IdleServices
    /\ IdleFront
    /\ now = 0
    /\ IdleCell

NextIngest ==
    \/ \E doc \in Docs, text \in 0..MaxChunks : EditSource(doc, text)
    \/ \E queue \in DocQueues : StartRun(queue)
    \/ BeginChunking
    \/ BeginEmbedding
    \/ BeginIndexing
    \/ IndexChunk
    \/ CommitSource
    \/ FinishRun
    \/ FailRun

SpecIngest == InitIngest /\ [][NextIngest]_vars

(***************************************************************************)
(* A full reindex and a concurrent search (modelled from the               *)
(* specification): the new index is built aside and replaces the           *)
(* collection in one step; a search reads the index it started on          *)
(***************************************************************************)
MaxReindexes == 2   \* reindexes in one behaviour

DocOrder == <<"d1", "d2">>

\* the entries a reindex upserts: the chunks of every source, in order
RECURSIVE AllChunks(_, _)
AllChunks(texts, n) ==
    IF n = 0 THEN <<>>
    ELSE AllChunks(texts, n - 1) \o ChunksOf(DocOrder[n], texts[DocOrder[n]])

\* a search reading whatever the index holds at the moment of each read
Visible_Live(view) ==
    IF reindex.state = "rebuilding" THEN reindex.staging ELSE collection

\* the entries a search in progress reads: those of the index it started on
Visible(view) == view

\* clear: the rebuild starts from an empty index, aside from the collection
ReindexBegin ==
    /\ reindex.state = "idle"
    /\ reindex.number < MaxReindexes
    /\ reindex' = [state |-> "rebuilding", number |-> reindex.number + 1,
                   staging |-> <<>>,
                   todo |-> AllChunks(sourceTexts, Len(DocOrder))]
    /\ UNCHANGED <<collection, scan, ingestVars>>
    /\ UNCHANGED <<cellVars, frontVars, now, serviceVars, askVars, chatVars, searchVars, homeVars>>

ReindexUpsert ==
    /\ reindex.state = "rebuilding"
    /\ reindex.todo # <<>>
    /\ reindex' = [reindex EXCEPT
                      !.staging = Upsert(@, Head(reindex.todo)),
                      !.todo = Tail(@)]
    /\ UNCHANGED <<collection, scan, ingestVars>>
    /\ UNCHANGED <<cellVars, frontVars, now, serviceVars, askVars, chatVars, searchVars, homeVars>>

\* the rebuilt index replaces the collection
ReindexCommit ==
    /\ reindex.state = "rebuilding"
    /\ reindex.todo = <<>>
    /\ collection' = reindex.staging
    /\ reindex' = [reindex EXCEPT !.state = "idle", !.staging = <<>>]
    /\ scan' = IF scan.state = "reading"
               THEN [scan EXCEPT !.versions = @ \cup {reindex.staging}]
               ELSE scan
    /\ UNCHANGED ingestVars
    /\ UNCHANGED <<cellVars, frontVars, now, serviceVars, askVars, chatVars, searchVars, homeVars>>

SearchBegin ==
    /\ scan.state # "reading"
    /\ scan' = [state |-> "reading", view |-> collection, seen |-> <<>>,
                versions |-> {collection}]
    /\ UNCHANGED <<collection, reindex, ingestVars>>
    /\ UNCHANGED <<cellVars, frontVars, now, serviceVars, askVars, chatVars, searchVars, homeVars>>

\* the search reads the next entry
SearchRead ==
    /\ scan.state = "reading"
    /\ Len(scan.seen) < Len(Visible(scan.view))
    /\ scan' = [scan EXCEPT
                   !.seen = Append(@, Visible(scan.view)[Len(scan.seen) + 1])]
    /\ UNCHANGED <<collection, reindex, ingestVars>>
    /\ UNCHANGED <<cellVars, frontVars, now, serviceVars, askVars, chatVars, searchVars, homeVars>>

\* the search has read every entry
SearchEnd ==
    /\ scan.state = "reading"
    /\ Len(scan.seen) >= Len(Visible(scan.view))
    /\ scan' = [scan EXCEPT !.state = "done"]
    /\ UNCHANGED <<collection, reindex, ingestVars>>
    /\ UNCHANGED <<cellVars, frontVars, now, serviceVars, askVars, chatVars, searchVars, homeVars>>

\* the collection was built from some texts; the sources may differ by now
InitReindex ==
    /\ \E texts \in [Docs -> 0..MaxChunks] :
           collection = AllChunks(texts, Len(DocOrder))
    /\ sourceTexts \in [Docs -> 0..MaxChunks]
    /\ documents = [d \in Docs |-> NoDocument]
    /\ run = NoRun
    /\ IdleReindex
    /\ IdleAsk
    /\ IdleChat
    /\ IdleSearch
    /\ IdleHome
    /\ IdleServices
    /\ IdleFront
    /\ now = 0
    /\ IdleCell

NextReindex ==
    \/ ReindexBegin
    \/ ReindexUpsert
    \/ ReindexCommit
    \/ SearchBegin
    \/ SearchRead
    \/ SearchEnd

SpecReindex == InitReindex /\ [][NextReindex]_vars

(***************************************************************************)
(* VectorIndex.search (modelled from the specification): the entries that  *)
(* satisfy the filter are ranked by similarity to the query vector, an     *)
(* entry inserted earlier before one that is as similar, and the first k   *)
(* are returned                                                            *)
(***************************************************************************)
MaxEntries == 3     \* entries of the searched index
MaxK == 3           \* the largest k of a search

Vectors == {<<1, 0>>, <<0, 1>>, <<1, 1>>}

LeadStatuses == {"called", "uncalled"}

NoFilter == ""

Filters == {NoFilter} \cup LeadStatuses

\* IndexEntry: the embedding and the metadata of a chunk
IndexEntry(id, vector, leadStatus) ==
    [id |-> id, vector |-> vector, leadStatus |-> leadStatus]

\* the similarity of two vectors: their inner product
Similarity(u, v) == u[1] * v[1] + u[2] * v[2]

Matches(entry, filter) == filter = NoFilter \/ entry.leadStatus = filter

\* entry put into a ranked list after every element at least as similar
RECURSIVE InsertRanked(_, _, _)
InsertRanked(ranked, entry, queryVector) ==
    IF ranked = <<>> THEN <<entry>>
    ELSE IF Similarity(queryVector, Head(ranked).vector)
              >= Similarity(queryVector, entry.vector)
         THEN <<Head(ranked)>> \o InsertRanked(Tail(ranked), entry, queryVector)
         ELSE <<entry>> \o ranked

\* the entries in descending similarity, ties in insertion order
RECURSIVE Rank(_, _)
Rank(entries, queryVector) ==
    IF entries = <<>> THEN <<>>
    ELSE InsertRanked(Rank(SubSeq(entries, 1, Len(entries) - 1), queryVector),
                      entries[Len(entries)], queryVector)

FirstK(ranked, k) ==
    SubSeq(ranked, 1, IF k < Len(ranked) THEN k ELSE Len(ranked))

\* a search that ranks the whole index, keeps k and filters what is left
search_RankThenFilter(entries, queryVector, k, filter) ==
    SelectSeq(FirstK(Rank(entries, queryVector), k),
              LAMBDA e : Matches(e, filter))

\* search(queryVector, k, filter): filter, then rank, then keep k
search(entries, queryVector, k, filter) ==
    FirstK(Rank(SelectSeq(entries, LAMBDA e : Matches(e, filter)), queryVector),
           k)

\* upsert of an entry: a new chunk, or a chunk already indexed whose
\* embedding or metadata changed
UpsertEntry(id, vector, leadStatus) ==
    /\ id <= MaxEntries
    /\ id <= Len(vectorIndex.entries) + 1
    /\ IndexEntry(id, vector, leadStatus) \notin Range(vectorIndex.entries)
    /\ vectorIndex' = [vectorIndex EXCEPT
           !.entries = Upsert(@, IndexEntry(id, vector, leadStatus)),
           !.state = "idle", !.queryVector = <<>>, !.k = 0,
           !.filter = NoFilter, !.result = <<>>]
    /\ UNCHANGED <<chunker, embedding, client, route>>
    /\ UNCHANGED <<cellVars, frontVars, now, indexVars, askVars, chatVars, searchVars, homeVars, backendVars>>

VectorSearch(queryVector, k, filter) ==
    /\ vectorIndex' = [vectorIndex EXCEPT
           !.state = "searched", !.queryVector = queryVector, !.k = k,
           !.filter = filter,
           !.result = search(vectorIndex.entries, queryVector, k, filter)]
    /\ UNCHANGED <<chunker, embedding, client, route>>
    /\ UNCHANGED <<cellVars, frontVars, now, indexVars, askVars, chatVars, searchVars, homeVars, backendVars>>

\* what every specification other than that of the services starts from
IdleOthers ==
    /\ IdleCell
    /\ IdleIndex
    /\ IdleAsk
    /\ IdleChat
    /\ IdleSearch
    /\ IdleHome
    /\ IdleIngest
    /\ IdleReindex

InitVectorSearch ==
    /\ vectorIndex = NoVectorSearch
    /\ chunker = NoSplit
    /\ embedding = NoEmbedding
    /\ client = NoCall
    /\ route = NoRouteRequest
    /\ IdleOthers
    /\ IdleFront
    /\ now = 0

NextVectorSearch ==
    \/ \E id \in 1..MaxEntries, vector \in Vectors, leadStatus \in LeadStatuses :
           UpsertEntry(id, vector, leadStatus)
    \/ \E queryVector \in Vectors, k \in 0..MaxK, filter \in Filters :
           VectorSearch(queryVector, k, filter)

SpecVectorSearch == InitVectorSearch /\ [][NextVectorSearch]_vars

(***************************************************************************)
(* Chunker.split (modelled from the specification): chunks of chunkSize    *)
(* characters, each starting chunkSize - overlap after the one before,     *)
(* the last one ending with the text                                       *)
(***************************************************************************)
MaxTextLen == 8     \* characters of a text to split
MaxChunkSize == 4   \* the largest chunkSize

TextChars == {"a", "b"}

\* Chunk: the text of the chunk and the range of the source it was cut from
TextChunk(text, startOffset, chunkSize) ==
    LET end == IF startOffset + chunkSize < Len(text)
               THEN startOffset + chunkSize ELSE Len(text)
    IN  [startOffset |-> startOffset, length |-> end - startOffset,
         text |-> SubSeq(text, startOffset + 1, end)]

\* a split that goes on until the start of a chunk is past the end
RECURSIVE SplitFrom_UntilStartPastEnd(_, _, _, _)
SplitFrom_UntilStartPastEnd(text, chunkSize, overlap, startOffset) ==
    IF startOffset >= Len(text) THEN <<>>
    ELSE <<TextChunk(text, startOffset, chunkSize)>>
         \o SplitFrom_UntilStartPastEnd(text, chunkSize, overlap,
                                        startOffset + chunkSize - overlap)

\* the chunks from startOffset on: the chunk that reaches the end of the
\* text is the last
RECURSIVE SplitFrom(_, _, _, _)
SplitFrom(text, chunkSize, overlap, startOffset) ==
    IF startOffset >= Len(text) THEN <<>>
    ELSE IF startOffset + chunkSize >= Len(text)
         THEN <<TextChunk(text, startOffset, chunkSize)>>
         ELSE <<TextChunk(text, startOffset, chunkSize)>>
              \o SplitFrom(text, chunkSize, overlap,
                           startOffset + chunkSize - overlap)

\* split(text, chunkSize, overlap)
split(text, chunkSize, overlap) == SplitFrom(text, chunkSize, overlap, 0)

\* the text to split is extended by one character
AppendText(c) ==
    /\ Len(chunker.text) < MaxTextLen
    /\ chunker' = [chunker EXCEPT !.text = Append(@, c), !.state = "idle",
                                  !.chunks = <<>>]
    /\ UNCHANGED <<vectorIndex, embedding, client, route>>
    /\ UNCHANGED <<cellVars, frontVars, now, indexVars, askVars, chatVars, searchVars, homeVars, backendVars>>

\* the configuration is changed: overlap < chunkSize
Configure(chunkSize, overlap) ==
    /\ overlap < chunkSize
    /\ <<chunkSize, overlap>> # <<chunker.chunkSize, chunker.overlap>>
    /\ chunker' = [chunker EXCEPT !.chunkSize = chunkSize, !.overlap = overlap,
                                  !.state = "idle", !.chunks = <<>>]
    /\ UNCHANGED <<vectorIndex, embedding, client, route>>
    /\ UNCHANGED <<cellVars, frontVars, now, indexVars, askVars, chatVars, searchVars, homeVars, backendVars>>

Split ==
    /\ chunker.state = "idle"
    /\ chunker' = [chunker EXCEPT
           !.state = "done",
           !.chunks = split(chunker.text, chunker.chunkSize, chunker.overlap)]
    /\ UNCHANGED <<vectorIndex, embedding, client, route>>
    /\ UNCHANGED <<cellVars, frontVars, now, indexVars, askVars, chatVars, searchVars, homeVars, backendVars>>

InitChunker ==
    /\ chunker = NoSplit
    /\ vectorIndex = NoVectorSearch
    /\ embedding = NoEmbedding
    /\ client = NoCall
    /\ route = NoRouteRequest
    /\ IdleOthers
    /\ IdleFront
    /\ now = 0

NextChunker ==
    \/ \E c \in TextChars : AppendText(c)
    \/ \E chunkSize \in 1..MaxChunkSize, overlap \in 0..MaxChunkSize :
           Configure(chunkSize, overlap)
    \/ Split

SpecChunker == InitChunker /\ [][NextChunker]_vars

(***************************************************************************)
(* frontend/utils/gemini.ts: embedText and embedMany, each split at its    *)
(* await of the provider                                                   *)
(***************************************************************************)
MaxTexts == 3       \* texts of one embedMany call

EmbedTexts == {<<"acme">>, <<"beta">>, <<>>}

\* the vector the provider computes for a text
EmbeddingOf(text) ==
    CASE text = <<"acme">> -> <<1, 0>>
      [] text = <<"beta">> -> <<0, 1>>
      [] OTHER -> <<1, 1>>

\* gemini.ts:6: the three ways the environment sets the key
ApiKeys == {Undefined, Str(<<>>), Str(<<"key">>)}

MissingKeyMessage == "Gemini API key is missing"

InvalidResponseMessage == "Embedding response was invalid"

\* the errors model.embedContent rejects with: the provider is unreachable,
\* the provider refuses the input
SdkErrors == {"fetch failed", "400 Bad Request"}

\* what model.embedContent resolves with: result.embedding.values and
\* result.embedding.value (both undefined when there is no embedding)
EmbedResult(values, value) == [values |-> values, value |-> value]

ProviderResults(text) ==
    {EmbedResult(Arr(EmbeddingOf(text)), Undefined),
     EmbedResult(Undefined, Arr(EmbeddingOf(text))),
     EmbedResult(Null, Arr(EmbeddingOf(text))),
     EmbedResult(Undefined, Undefined),
     EmbedResult(Null, Null),
     EmbedResult(Str(<<"x">>), Arr(EmbeddingOf(text)))}

\* an assertApiKey that takes the empty key for a key
assertApiKey_AcceptsEmpty(key) == ~IsNullish(key)

\* assertApiKey passes
assertApiKey(key) == Truthy(key)

\* gemini.ts:22: values ?? value
ValuesOf(result) ==
    IF IsNullish(result.values) THEN result.value ELSE result.values

\* gemini.ts:23: !values || !Array.isArray(values)
IsInvalid(values) == values.k # "array"

\* a push at the front of the list
Push_Front(embeddings, values) == <<values>> \o embeddings

\* embeddings.push(values)
Push(embeddings, values) == Append(embeddings, values)

EmbedCall(key, fn, texts) ==
    [key |-> key, fn |-> fn, texts |-> texts, pos |-> 0, embeddings |-> <<>>,
     state |-> "called", sent |-> <<>>, value |-> <<>>, message |-> ""]

\* embedText up to its await: the key is checked, then the request is made
EmbedTextBegin(e) ==
    IF assertApiKey(e.key)
    THEN [e EXCEPT !.state = "awaiting", !.sent = Append(@, e.texts[e.pos + 1])]
    ELSE [e EXCEPT !.state = "thrown", !.message = MissingKeyMessage]

\* the loop of embedMany from the top of an iteration to the next await
EmbedManyLoop(e) ==
    IF e.pos = Len(e.texts)
    THEN [e EXCEPT !.state = "returned", !.value = e.embeddings]
    ELSE EmbedTextBegin(e)

EmbedText(text) ==
    /\ embedding.state # "awaiting"
    /\ embedding' = EmbedTextBegin(EmbedCall(embedding.key, "embedText", <<text>>))
    /\ UNCHANGED <<vectorIndex, chunker, client, route>>
    /\ UNCHANGED <<cellVars, frontVars, now, indexVars, askVars, chatVars, searchVars, homeVars, backendVars>>

EmbedMany(texts) ==
    /\ embedding.state # "awaiting"
    /\ embedding' = EmbedManyLoop(EmbedCall(embedding.key, "embedMany", texts))
    /\ UNCHANGED <<vectorIndex, chunker, client, route>>
    /\ UNCHANGED <<cellVars, frontVars, now, indexVars, askVars, chatVars, searchVars, homeVars, backendVars>>

\* model.embedContent resolves: embedText returns or throws, embedMany
\* pushes and goes on with the next text
EmbedContentResolved ==
    /\ embedding.state = "awaiting"
    /\ \E result \in ProviderResults(embedding.texts[embedding.pos + 1]) :
         LET values == ValuesOf(result) IN
         embedding' =
           IF IsInvalid(values)
           THEN [embedding EXCEPT !.state = "thrown",
                                  !.message = InvalidResponseMessage]
           ELSE IF embedding.fn = "embedText"
                THEN [embedding EXCEPT !.state = "returned", !.pos = 1,
                                       !.value = <<values.v>>]
                ELSE EmbedManyLoop(
                       [embedding EXCEPT
                           !.pos = @ + 1,
                           !.embeddings = Push(@, values.v)])
    /\ UNCHANGED <<vectorIndex, chunker, client, route>>
    /\ UNCHANGED <<cellVars, frontVars, now, indexVars, askVars, chatVars, searchVars, homeVars, backendVars>>

\* model.embedContent rejects: the error leaves embedText and embedMany
EmbedContentRejected ==
    /\ embedding.state = "awaiting"
    /\ \E message \in SdkErrors :
         embedding' = [embedding EXCEPT !.state = "thrown", !.message = message]
    /\ UNCHANGED <<vectorIndex, chunker, client, route>>
    /\ UNCHANGED <<cellVars, frontVars, now, indexVars, askVars, chatVars, searchVars, homeVars, backendVars>>

TextLists ==
    UNION {[1..n -> EmbedTexts] : n \in 0..MaxTexts}

InitEmbedding ==
    /\ \E key \in ApiKeys : embedding = [NoEmbedding EXCEPT !.key = key]
    /\ vectorIndex = NoVectorSearch
    /\ chunker = NoSplit
    /\ client = NoCall
    /\ route = NoRouteRequest
    /\ IdleOthers
    /\ IdleFront
    /\ now = 0

NextEmbedding ==
    \/ \E text \in EmbedTexts : EmbedText(text)
    \/ \E texts \in TextLists : EmbedMany(texts)
    \/ EmbedContentResolved
    \/ EmbedContentRejected

SpecEmbedding == InitEmbedding /\ [][NextEmbedding]_vars

(***************************************************************************)
(* The API client (unnamed/part_005): resolveBackendBase, getErrorCode,    *)
(* getLocalizedErrorMessage and the calls chat, ingestExcel, uploadFile,   *)
(* ingestData and getStats, each split at its await of fetch.              *)
(* A URL is a sequence of tokens: the scheme with its colon, single        *)
(* slashes, single blanks, and the host and port as opaque tokens.         *)
(***************************************************************************)
Url(scheme, rest) == <<scheme, "/", "/">> \o rest

\* the values NEXT_PUBLIC_BACKEND_URL is tried with
BackendUrls ==
    {Undefined, Str(<<>>), Str(<<" ", " ">>),
     Str(Url("https:", <<"api.example.com">>)),
     Str(Url("https:", <<"api.example.com", "/">>)),
     Str(Url("https:", <<"api.example.com", "/", "/">>)),
     Str(Url("https:", <<"api.example.com", "/", "v1", "/">>)),
     Str(<<" ">> \o Url("https:", <<"api.example.com", "/">>) \o <<" ">>),
     Str(Url("HTTPS:", <<"api.example.com">>)),
     Str(Url("https:", <<"localhost", ":8000">>)),
     Str(Url("https:", <<>>)),
     Str(Url("http:", <<"api.example.com">>)),
     Str(Url("http:", <<"api.example.com", "/">>)),
     Str(Url("http:", <<"localhost", ":8000">>)),
     Str(Url("HTTP:", <<"LOCALHOST", ":8000", "/">>)),
     Str(Url("http:", <<"127.0.0.1", ":8000">>)),
     Str(<<" ">> \o Url("http:", <<"127.0.0.1", ":8000">>)),
     Str(<<"https:", "/", "api.example.com">>),
     Str(<<"api.example.com", "/">>),
     Str(<<"/">>)}

\* window.location.origin; NoWindow where typeof window is 'undefined'
NoWindow == <<>>

Origins ==
    {NoWindow, Url("https:", <<"app.example.com">>),
     Url("http:", <<"localhost", ":3000">>)}

\* the i flag of the regular expressions
LowerToken(token) ==
    CASE token = "HTTPS:" -> "https:"
      [] token = "HTTP:" -> "http:"
      [] token = "LOCALHOST" -> "localhost"
      [] OTHER -> token

\* /^https:\/\//i
IsHttps(url) ==
    /\ Len(url) >= 3
    /\ LowerToken(url[1]) = "https:"
    /\ url[2] = "/"
    /\ url[3] = "/"

\* /^http:\/\/(localhost|127\.0\.0\.1)/i
IsLocalLike(url) ==
    /\ Len(url) >= 4
    /\ LowerToken(url[1]) = "http:"
    /\ url[2] = "/"
    /\ url[3] = "/"
    /\ LowerToken(url[4]) \in {"localhost", "127.0.0.1"}

\* url.replace(/\/+$/, '')
RECURSIVE StripTrailingSlashes(_)
StripTrailingSlashes(url) ==
    IF url # <<>> /\ url[Len(url)] = "/"
    THEN StripTrailingSlashes(SubSeq(url, 1, Len(url) - 1))
    ELSE url

\* the code of an error: undefined, a string, or the legacy number of a
\* DOMException
NumberCode(digits) == [k |-> "number", v |-> <<digits>>]

\* an error object: its name, message (as words), status (0: none), code
Err(name, message, status, code) ==
    [name |-> name, message |-> message, status |-> status, code |-> code]

NoError == Err("", <<>>, 0, Undefined)

\* new ApiError({ message, status, code })
ApiErrorOf(message, status, code) == Err("ApiError", message, status, code)

Resolved(url) == [ok |-> TRUE, url |-> url, error |-> NoError]

Refused(err) == [ok |-> FALSE, url |-> <<>>, error |-> err]

\* a check that refuses only the local http URLs
resolveBackendBase_RejectsLocalOnly(env, origin) ==
    LET url == IF IsNullish(env) THEN <<>> ELSE Trim(env.v) IN
    IF url = <<>>
    THEN Refused(ApiErrorOf(<<"NEXT_PUBLIC_BACKEND_URL", "unset">>, 500,
                            Str(<<"MISSING_ENV_VAR">>)))
    ELSE IF origin # NoWindow /\ IsHttps(origin) /\ IsLocalLike(url)
         THEN Refused(ApiErrorOf(<<"localhost", "not", "allowed">>, 500,
                                 Str(<<"INVALID_BACKEND_URL">>)))
         ELSE Resolved(StripTrailingSlashes(url))

\* resolveBackendBase()
resolveBackendBase(env, origin) ==
    LET url == IF IsNullish(env) THEN <<>> ELSE Trim(env.v)
        isProd == origin # NoWindow /\ IsHttps(origin)
        isLocalLike == IsLocalLike(url)
    IN  IF url = <<>>
        THEN Refused(ApiErrorOf(<<"NEXT_PUBLIC_BACKEND_URL", "unset">>, 500,
                                Str(<<"MISSING_ENV_VAR">>)))
        ELSE IF isProd /\ ~IsHttps(url)
             THEN Refused(ApiErrorOf(<<"only", "https", "allowed">>, 500,
                                     Str(<<"INVALID_BACKEND_URL">>)))
             ELSE IF isProd /\ isLocalLike
                  THEN Refused(ApiErrorOf(<<"localhost", "not", "allowed">>,
                                          500, Str(<<"INVALID_BACKEND_URL">>)))
                  ELSE Resolved(StripTrailingSlashes(url))

\* if (error?.code): a non-empty string or a number other than 0
CodeTruthy(code) ==
    \/ code.k = "string" /\ code.v # <<>>
    \/ code.k = "number" /\ code.v # <<"0">>

\* message.includes(word)
Includes(message, word) == word \in Range(message)

\* getErrorCode testing the status before the message
getErrorCode_StatusFirst(err) ==
    IF CodeTruthy(err.code) THEN err.code
    ELSE IF err.name = "AbortError" THEN Str(<<"TIMEOUT">>)
    ELSE IF err.status >= 400 /\ err.status < 500
         THEN Str(<<"CLIENT_ERROR">>)
    ELSE IF err.status >= 500 THEN Str(<<"SERVER_ERROR">>)
    ELSE IF Includes(err.message, "fetch") THEN Str(<<"NETWORK_ERROR">>)
    ELSE IF Includes(err.message, "JSON") THEN Str(<<"PARSE_ERROR">>)
    ELSE Str(<<"UNKNOWN_ERROR">>)

\* getErrorCode(error)
getErrorCode(err) ==
    IF CodeTruthy(err.code) THEN err.code
    ELSE IF err.name = "AbortError" THEN Str(<<"TIMEOUT">>)
    ELSE IF Includes(err.message, "fetch") THEN Str(<<"NETWORK_ERROR">>)
    ELSE IF Includes(err.message, "JSON") THEN Str(<<"PARSE_ERROR">>)
    ELSE IF err.status >= 400 /\ err.status < 500
         THEN Str(<<"CLIENT_ERROR">>)
    ELSE IF err.status >= 500 THEN Str(<<"SERVER_ERROR">>)
    ELSE Str(<<"UNKNOWN_ERROR">>)

\* getLocalizedErrorMessage(error)
getLocalizedErrorMessage(err) ==
    LET code == getErrorCode(err) IN
    CASE code = Str(<<"TIMEOUT">>) -> <<"request", "timed", "out">>
      [] code = Str(<<"NETWORK_ERROR">>) -> <<"network", "error">>
      [] code = Str(<<"PARSE_ERROR">>) -> <<"response", "not", "parsed">>
      [] code = Str(<<"CLIENT_ERROR">>) -> <<"request", "is", "wrong">>
      [] code = Str(<<"SERVER_ERROR">>) -> <<"server", "error">>
      [] OTHER -> <<"unexpected", "error">>

\* the calls with a timeout and the signal each passes to fetch
ClientCalls == {"chat", "ingestExcel", "uploadFile", "ingestData", "getStats"}

\* AbortSignal.timeout(ms)
TimeoutMs(fn) ==
    CASE fn = "chat" -> 120000
      [] fn \in {"ingestExcel", "ingestData"} -> 600000
      [] fn = "uploadFile" -> 300000
      [] fn = "getStats" -> 30000

PathOf(fn) ==
    CASE fn = "chat" -> <<"/", "api", "/", "ask">>
      [] fn = "ingestExcel" -> <<"/", "ingest-excel">>
      [] fn = "uploadFile" -> <<"/", "upload">>
      [] fn = "ingestData" -> <<"/", "ingest">>
      [] fn = "getStats" -> <<"/", "search-stats">>

\* what fetch rejects with when the timeout of its signal fires: the
\* signal's reason, a DOMException named TimeoutError (legacy code 23), or,
\* where the runtime does not pass the reason on, a DOMException named
\* AbortError (legacy code 20)
TimeoutRejections ==
    {Err("TimeoutError", <<"signal", "timed", "out">>, 0, NumberCode("23")),
     Err("TimeoutError", <<"The", "operation", "was", "aborted", "due", "to",
                           "timeout">>, 0, NumberCode("23")),
     Err("AbortError", <<"The", "operation", "was", "aborted">>, 0,
         NumberCode("20"))}

\* what fetch rejects with when the backend cannot be reached
NetworkRejections ==
    {Err("TypeError", <<"fetch", "failed">>, 0, Undefined),
     Err("TypeError", <<"Failed", "to", "fetch">>, 0, Undefined),
     Err("TypeError", <<"Load", "failed">>, 0, Undefined)}

\* what JSON.parse and response.json() throw on a body that is not JSON
ParseErrors ==
    {Err("SyntaxError", <<"Unexpected", "end", "of", "JSON", "input">>, 0,
         Undefined)}

ResponseStatuses == {200, 400, 404, 500, 503}

\* the catch block of every call: the error is wrapped in a new ApiError
\* (chat alone copies the status)
Wrapped(fn, err) ==
    ApiErrorOf(getLocalizedErrorMessage(err),
               IF fn = "chat" THEN err.status ELSE 0,
               getErrorCode(err))

ClientCall(env, origin, fn, state, cause, endpoint, signal, err) ==
    [env |-> env, origin |-> origin, fn |-> fn, state |-> state,
     cause |-> cause, endpoint |-> endpoint, signal |-> signal,
     response |-> [status |-> 0, parses |-> FALSE], error |-> err]

\* a call up to its await of fetch
Call(fn) ==
    /\ client.state # "fetching"
    /\ LET backend == resolveBackendBase(client.env, client.origin) IN
       client' =
         IF backend.ok
         THEN ClientCall(client.env, client.origin, fn, "fetching", "",
                         backend.url \o PathOf(fn), TimeoutMs(fn), NoError)
         ELSE ClientCall(client.env, client.origin, fn, "thrown", "config",
                         <<>>, 0, Wrapped(fn, backend.error))
    /\ UNCHANGED <<vectorIndex, chunker, embedding, route>>
    /\ UNCHANGED <<cellVars, frontVars, now, indexVars, askVars, chatVars, searchVars, homeVars, backendVars>>

\* fetch resolves before the timeout
FetchResolved(status, parses) ==
    /\ client.state = "fetching"
    /\ client' =
         [response |-> [status |-> status, parses |-> parses]] @@
         IF status \notin 200..299
         THEN [client EXCEPT
                 !.state = "thrown", !.cause = "http",
                 !.error = Wrapped(client.fn,
                             ApiErrorOf(<<"HTTP">>, status,
                                        getErrorCode(Err("", <<>>, status,
                                                         Undefined))))]
         ELSE IF ~parses
         THEN [client EXCEPT
                 !.state = "thrown", !.cause = "parse",
                 !.error = Wrapped(client.fn, CHOOSE e \in ParseErrors : TRUE)]
         ELSE [client EXCEPT !.state = "returned", !.cause = ""]
    /\ UNCHANGED <<vectorIndex, chunker, embedding, route>>
    /\ UNCHANGED <<cellVars, frontVars, now, indexVars, askVars, chatVars, searchVars, homeVars, backendVars>>

\* fetch rejects: the backend cannot be reached
FetchRejected ==
    /\ client.state = "fetching"
    /\ \E rejection \in NetworkRejections :
         client' = [client EXCEPT !.state = "thrown", !.cause = "network",
                                  !.error = Wrapped(client.fn, rejection)]
    /\ UNCHANGED <<vectorIndex, chunker, embedding, route>>
    /\ UNCHANGED <<cellVars, frontVars, now, indexVars, askVars, chatVars, searchVars, homeVars, backendVars>>

\* the timeout of the signal fires before the backend has answered
FetchTimedOut ==
    /\ client.state = "fetching"
    /\ client.signal > 0
    /\ \E rejection \in TimeoutRejections :
         client' = [client EXCEPT !.state = "thrown", !.cause = "timeout",
                                  !.error = Wrapped(client.fn, rejection)]
    /\ UNCHANGED <<vectorIndex, chunker, embedding, route>>
    /\ UNCHANGED <<cellVars, frontVars, now, indexVars, askVars, chatVars, searchVars, homeVars, backendVars>>

InitClient ==
    /\ \E env \in BackendUrls, origin \in Origins :
           client = [NoCall EXCEPT !.env = env, !.origin = origin]
    /\ vectorIndex = NoVectorSearch
    /\ chunker = NoSplit
    /\ embedding = NoEmbedding
    /\ route = NoRouteRequest
    /\ IdleOthers
    /\ IdleFront
    /\ now = 0

NextClient ==
    \/ \E fn \in ClientCalls : Call(fn)
    \/ \E status \in ResponseStatuses, parses \in BOOLEAN :
           FetchResolved(status, parses)
    \/ FetchRejected
    \/ FetchTimedOut

SpecClient == InitClient /\ [][NextClient]_vars

(***************************************************************************)
(* The API routes: the proxies POST /api/search (unnamed/part_004),        *)
(* POST /api/ingest (unnamed/part_002), GET /api/stats (unnamed/part_003)  *)
(* and POST /api/upload (app/api/gemini/health/route.ts), the chat route   *)
(* POST /api/chat and the cell route GET /api/company/by-cell (both in     *)
(* app/page.tsx), each split at its await of fetch                         *)
(***************************************************************************)
Proxies == {"search", "ingest", "stats", "upload"}

Routes == Proxies \cup {"chat", "cell"}

\* process.env.NEXT_PUBLIC_BACKEND_URL as the routes see it
RouteBackends == {Undefined, Str(<<>>), Str(<<"backend">>)}

\* page.tsx:100: the URL the cell route falls back to
DefaultBackend == <<"http://localhost:8000">>

\* the message of a chat request body: missing, null, a string, a number
ChatMessages ==
    {Undefined, Null, Str(<<>>), Str(<<" ">>), Str(<<" ", " ">>),
     Str(<<"h", "i">>), Str(<<" ", "h", "i", " ">>), NumberCode("5")}

\* the cell parameter of a cell request: searchParams.get gives null when
\* it is missing
CellParams ==
    {Null, Str(<<>>), Str(<<"A", "2">>), Str(<<"a", "2">>),
     Str(<<"A", "B", "1", "0">>), Str(<<"A", "0">>), Str(<<"2", "A">>),
     Str(<<"A">>), Str(<<"A", "-", "1">>), Str(<<" ">>)}

\* a request: whether its body can be read (request.json(),
\* request.formData()), and the fields the chat and cell routes look at
RouteRequest(readable, message, cell) ==
    [readable |-> readable, message |-> message, cell |-> cell]

RequestsOf(name) ==
    CASE name \in {"search", "upload"} ->
             {RouteRequest(r, Undefined, Null) : r \in BOOLEAN}
      [] name \in {"ingest", "stats"} -> {RouteRequest(TRUE, Undefined, Null)}
      [] name = "chat" ->
             {RouteRequest(TRUE, m, Null) : m \in ChatMessages}
             \cup {RouteRequest(FALSE, Undefined, Null)}
      [] name = "cell" -> {RouteRequest(TRUE, Undefined, c) : c \in CellParams}

\* the body of a response: a text passed on as it is, or a JSON object
\* with error and (possibly) detail, or the JSON data of the backend
TextBody(text) ==
    [k |-> "text", text |-> text, error |-> "", detail |-> Undefined]

ErrorJson(message, detail) ==
    [k |-> "error", text |-> <<>>, error |-> message, detail |-> detail]

DataJson(text) ==
    [k |-> "data", text |-> text, error |-> "", detail |-> Undefined]

NoBody == TextBody(<<>>)

\* what the backend answers: a status and a text
BackendStatuses == {200, 204, 400, 404, 500}

BackendTexts == {<<>>, <<"{}">>, <<"<html>">>}

BackendAnswer(status, text) == [answered |-> TRUE, status |-> status, text |-> text]

NoAnswer == [answered |-> FALSE, status |-> 0, text |-> <<>>]

\* 204 No Content carries no body
BackendAnswers ==
    {BackendAnswer(status, text) :
        <<status, text>> \in {p \in BackendStatuses \X BackendTexts :
                                 p[1] = 204 => p[2] = <<>>}}

\* JSON.parse succeeds on the text
IsJson(text) == text = <<"{}">>

\* new Response(body, { status }) and NextResponse.json(body, { status })
\* throw a TypeError for a status that allows no body
NullBodyStatus(status) == status \in {101, 204, 205, 304}

\* !message?.trim() taken without trimming
IsBlankMessage_NoTrim(message) == IsNullish(message) \/ message.v = <<>>

\* !message?.trim() of a missing, null or string message
IsBlankMessage(message) == IsNullish(message) \/ Trim(message.v) = <<>>

Responded(r, status, body) ==
    [r EXCEPT !.state = "responded", !.status = status, !.body = body]

Forwarded(r, backend, path, payload) ==
    [r EXCEPT !.state = "forwarded",
              !.forwarded = Append(@, [backend |-> backend, path |-> path,
                                       payload |-> payload])]

\* the catch block of a route
Caught(r, message, detail) ==
    Responded(r, 500, ErrorJson(message, Str(<<detail>>)))

\* the proxies up to their fetch
ProxyBegin(r) ==
    IF ~Truthy(r.env)
    THEN Caught(r, "Internal server error", "NEXT_PUBLIC_BACKEND_URL is missing")
    ELSE IF ~r.request.readable
    THEN Caught(r, "Internal server error", "Unexpected end of JSON input")
    ELSE Forwarded(r, r.env.v, r.name, Undefined)

\* POST /api/chat up to its fetch
ChatBegin(r) ==
    IF ~Truthy(r.key)
    THEN Responded(r, 500, ErrorJson("Gemini API key is missing", Undefined))
    ELSE IF ~r.request.readable
    THEN Caught(r, "Internal server error", "Unexpected end of JSON input")
    ELSE IF r.request.message.k = "number"
    THEN Caught(r, "Internal server error", "message?.trim is not a function")
    ELSE IF IsBlankMessage(r.request.message)
    THEN Responded(r, 400, ErrorJson("Message is required", Undefined))
    ELSE IF ~Truthy(r.env)
    THEN Responded(r, 500, ErrorJson("Internal server error",
                           Str(<<"NEXT_PUBLIC_BACKEND_URL is missing">>)))
    ELSE Forwarded(r, r.env.v, "api/ask", r.request.message)

\* GET /api/company/by-cell up to its fetch
CellBegin(r) ==
    IF ~Truthy(r.request.cell)
    THEN Responded(r, 400, ErrorJson("cell parameter is required", Undefined))
    ELSE Forwarded(r, IF Truthy(r.env) THEN r.env.v ELSE DefaultBackend,
                   "company/by-cell", r.request.cell)

\* a request arrives at a route
Handle(name, request) ==
    /\ route.state # "forwarded"
    /\ LET r == [route EXCEPT !.name = name, !.request = request,
                              !.state = "handling", !.forwarded = <<>>,
                              !.backend = NoAnswer, !.status = 0,
                              !.body = NoBody]
       IN route' = CASE name \in Proxies -> ProxyBegin(r)
                     [] name = "chat" -> ChatBegin(r)
                     [] name = "cell" -> CellBegin(r)
    /\ UNCHANGED <<vectorIndex, chunker, embedding, client>>
    /\ UNCHANGED <<cellVars, frontVars, now, indexVars, askVars, chatVars, searchVars, homeVars, backendVars>>

\* the proxies and the chat route after their fetch: the status and the
\* text of the backend go into a new Response
PassOn(r, answer) ==
    IF NullBodyStatus(answer.status)
    THEN Caught(r, "Internal server error", "Invalid response status code")
    ELSE Responded(r, answer.status, TextBody(answer.text))

\* the cell route after its fetch
CellEnd(r, answer) ==
    IF answer.status \notin 200..299
    THEN IF NullBodyStatus(answer.status)
         THEN Caught(r, "API error", "Invalid response status code")
         ELSE Responded(r, answer.status,
                        ErrorJson("backend error", Str(answer.text)))
    ELSE IF ~IsJson(answer.text)
         THEN Caught(r, "API error", "Unexpected end of JSON input")
         ELSE Responded(r, 200, DataJson(answer.text))

\* the backend answers the request a route forwarded
BackendResponded(answer) ==
    /\ route.state = "forwarded"
    /\ LET r == [route EXCEPT !.backend = answer] IN
       route' = IF route.name = "cell" THEN CellEnd(r, answer)
                ELSE PassOn(r, answer)
    /\ UNCHANGED <<vectorIndex, chunker, embedding, client>>
    /\ UNCHANGED <<cellVars, frontVars, now, indexVars, askVars, chatVars, searchVars, homeVars, backendVars>>

\* the fetch of a route fails
BackendUnreachable ==
    /\ route.state = "forwarded"
    /\ route' = Caught(route,
                       IF route.name = "cell" THEN "API error"
                       ELSE "Internal server error",
                       "fetch failed")
    /\ UNCHANGED <<vectorIndex, chunker, embedding, client>>
    /\ UNCHANGED <<cellVars, frontVars, now, indexVars, askVars, chatVars, searchVars, homeVars, backendVars>>

InitRoutes ==
    /\ \E env \in RouteBackends, key \in ApiKeys :
           route = [NoRouteRequest EXCEPT !.env = env, !.key = key]
    /\ vectorIndex = NoVectorSearch
    /\ chunker = NoSplit
    /\ embedding = NoEmbedding
    /\ client = NoCall
    /\ IdleOthers
    /\ IdleFront
    /\ now = 0

NextRoutes ==
    \/ \E name \in Routes : \E request \in RequestsOf(name) :
           Handle(name, request)
    \/ \E answer \in BackendAnswers : BackendResponded(answer)
    \/ BackendUnreachable

SpecRoutes == InitRoutes /\ [][NextRoutes]_vars

(***************************************************************************)
(* SpecErrors: getErrorCode and getLocalizedErrorMessage of the API client *)
(* applied to the errors a catch block can hand them. An error that is     *)
(* null, undefined or an object without the four properties reads as       *)
(* NoError through the optional chaining.                                  *)
(***************************************************************************)
ErrorNames == {"", "AbortError", "TimeoutError", "TypeError", "ApiError"}

ErrorMessages ==
    {<<>>, <<"boom">>, <<"Failed", "to", "fetch">>,
     <<"Unexpected", "end", "of", "JSON", "input">>,
     <<"fetch", "returned", "bad", "JSON">>,
     <<"The", "operation", "was", "aborted">>}

\* 0 stands for an error without a status
ErrorStatuses == {0, 200, 304, 399, 400, 404, 499, 500, 503, 599, 600}

ErrorCodes ==
    {Undefined, Null, Str(<<>>), Str(<<"TIMEOUT">>), Str(<<"SERVER_ERROR">>),
     Str(<<"MISSING_ENV_VAR">>), Str(<<"ECONNRESET">>),
     NumberCode("0"), NumberCode("20"), NumberCode("23")}

CaughtErrors ==
    {Err(name, message, status, code) :
        name \in ErrorNames, message \in ErrorMessages,
        status \in ErrorStatuses, code \in ErrorCodes}

\* a catch block hands its error to getErrorCode
GetErrorCode(err) ==
    /\ errorCall.state # "coded"
    /\ errorCall' = [arg |-> err, state |-> "coded",
                     code |-> getErrorCode(err), message |-> <<>>]
    /\ UNCHANGED <<uploader, now>>
    /\ UNCHANGED <<cellVars, serviceVars, indexVars, askVars, chatVars, searchVars, homeVars, backendVars>>

\* and then to getLocalizedErrorMessage
GetLocalizedErrorMessage ==
    /\ errorCall.state = "coded"
    /\ errorCall' = [errorCall EXCEPT
                        !.state = "worded",
                        !.message = getLocalizedErrorMessage(errorCall.arg)]
    /\ UNCHANGED <<uploader, now>>
    /\ UNCHANGED <<cellVars, serviceVars, indexVars, askVars, chatVars, searchVars, homeVars, backendVars>>

InitErrors ==
    /\ errorCall = NoErrorCall
    /\ uploader = NoUploader
    /\ now = 0
    /\ IdleServices
    /\ IdleOthers

NextErrors ==
    \/ \E err \in CaughtErrors : GetErrorCode(err)
    \/ GetLocalizedErrorMessage

SpecErrors == InitErrors /\ [][NextErrors]_vars

(***************************************************************************)
(* SpecSearch: LeadStatusSearch alone, mounted and not unmounted, on an    *)
(* empty collection. It starts after HistoryLimit - 1 searches for "q"     *)
(* that were all answered with the same envelope, so that the searches of  *)
(* a behaviour fill the history and then push entries out of it.           *)
(***************************************************************************)
PastSearches(n) ==
    [i \in 1..n |-> SearchHistory(n - i, <<"q">>, NoContextEnvelope(Null))]

InitSearch ==
    /\ collection = <<>>
    /\ activeTab = "leads"
    /\ question = <<>>
    /\ searchLoading = FALSE
    /\ response = [present |-> TRUE, data |-> NoContextEnvelope(Null)]
    /\ error = Null
    /\ searchHistory = PastSearches(HistoryLimit - 1)
    /\ now = HistoryLimit - 1
    /\ req = [s \in Screens |->
                 IF s = "search"
                 THEN Request("settled", <<"q">>, <<>>,
                              NoContextEnvelope(Null), 0, <<>>)
                 ELSE NoRequest]
    /\ IdleChat
    /\ IdleCell
    /\ IdleServices
    /\ IdleFront
    /\ IdleIngest
    /\ IdleReindex

NextSearch ==
    \/ TypeQuestion
    \/ HandleSearch
    \/ Retrieve("search")
    \/ Answer("search")
    \/ SearchResolved
    \/ SearchResolvedNotOk
    \/ SearchRejected

SpecSearch == InitSearch /\ [][NextSearch]_vars

(***************************************************************************)
(* SpecChat: the Chat component alone, as app/page.tsx mounts it: its key  *)
(* is Home's refreshKey, so that a successful upload mounts a new Chat.    *)
(* Every call of chat() ends, with a response or with an error (its fetch  *)
(* has a timeout), which is the fairness of the specification.             *)
(***************************************************************************)
\* Home.handleUploadSuccess: setRefreshKey(prev => prev + 1) and with it a
\* new Chat; the answer to the request of the old one reaches no component
HandleUploadSuccess ==
    /\ activeTab = "legacy"
    /\ messages' = <<>>
    /\ inputMessage' = <<>>
    /\ isLoading' = FALSE
    /\ req' = [req EXCEPT !["chat"] = NoRequest]
    /\ UNCHANGED <<cellVars, frontVars, now, serviceVars, indexVars, searchVars, homeVars, backendVars>>

InitChat ==
    /\ collection \in AskCollections
    /\ activeTab = "legacy"
    /\ IdleAsk
    /\ IdleChat
    /\ IdleSearch
    /\ IdleCell
    /\ IdleServices
    /\ IdleFront
    /\ now = 0
    /\ IdleIngest
    /\ IdleReindex

NextChat ==
    \/ TypeMessage
    \/ HandleSubmit
    \/ Retrieve("chat")
    \/ Answer("chat")
    \/ ChatResolved
    \/ ChatRejected
    \/ HandleUploadSuccess

SpecChat ==
    InitChat /\ [][NextChat]_vars /\ WF_vars(ChatResolved \/ ChatRejected)

(***************************************************************************)
(* components/Uploader.tsx: handleFileUpload, handleIngest and             *)
(* handleIngestExcel, each split at its await. The operations in flight    *)
(* are kept as a set, and the operations that have ended as a list with    *)
(* the number of calls of onUploadSuccess each has made.                   *)
(***************************************************************************)
MaxOperations == 3  \* operations started in one behaviour

IngestHandlers == {"handleIngest", "handleIngestExcel"}

\* how the awaited call of a handler ends: fetch rejects, or resolves with a
\* response whose body is a JSON object, the JSON null, or no JSON;
\* ingestExcel() throws an ApiError, or resolves with the parsed body
FetchOutcomes ==
    {[kind |-> "rejected", ok |-> FALSE, body |-> "none"]}
    \cup {[kind |-> "response", ok |-> ok, body |-> body] :
             ok \in BOOLEAN, body \in {"object", "null", "unparsable"}}

IngestExcelOutcomes ==
    {[kind |-> "rejected", ok |-> FALSE, body |-> "none"],
     [kind |-> "response", ok |-> TRUE, body |-> "object"],
     [kind |-> "response", ok |-> TRUE, body |-> "null"]}

OutcomesOf(handler) ==
    IF handler = "handleIngestExcel" THEN IngestExcelOutcomes
    ELSE FetchOutcomes

Succeeds == [message |-> "ok", calls |-> 1]

Fails == [message |-> "error", calls |-> 0]

\* the try block without its test of response.ok
AfterAwait_IgnoresStatus(outcome) ==
    IF outcome.kind = "rejected" THEN Fails
    ELSE IF outcome.body = "unparsable" THEN Fails
    ELSE IF outcome.body = "null" THEN Fails
    ELSE Succeeds

\* the try block of a handler from its await on, and its catch block:
\* response.json(), the test of response.ok, result.message, and then
\* setMessage and onUploadSuccess()
AfterAwait(outcome) ==
    IF outcome.kind = "rejected" THEN Fails
    ELSE IF outcome.body = "unparsable" THEN Fails
    ELSE IF ~outcome.ok THEN Fails
    ELSE IF outcome.body = "null" THEN Fails
    ELSE Succeeds

Started == Cardinality(uploader.pending) + Len(uploader.settled)

Operation(handler) == [id |-> Started + 1, handler |-> handler]

\* onChange of the file input, which is disabled while isUploading
HandleFileUpload(file) ==
    /\ ~uploader.isUploading
    /\ Started < MaxOperations
    /\ uploader' =
         IF ~file THEN uploader
         ELSE [uploader EXCEPT
                 !.isUploading = TRUE, !.message = "",
                 !.pending = @ \cup {Operation("handleFileUpload")}]
    /\ UNCHANGED <<errorCall, now>>
    /\ UNCHANGED <<cellVars, serviceVars, indexVars, askVars, chatVars, searchVars, homeVars, backendVars>>

\* onClick of one of the two buttons, which are disabled while isIngesting
HandleIngest(handler) ==
    /\ ~uploader.isIngesting
    /\ Started < MaxOperations
    /\ uploader' = [uploader EXCEPT
                      !.isIngesting = TRUE, !.message = "",
                      !.pending = @ \cup {Operation(handler)}]
    /\ UNCHANGED <<errorCall, now>>
    /\ UNCHANGED <<cellVars, serviceVars, indexVars, askVars, chatVars, searchVars, homeVars, backendVars>>

\* a handler from its await to its end: try or catch, then finally
HandlerEnds(op, outcome) ==
    /\ op \in uploader.pending
    /\ outcome \in OutcomesOf(op.handler)
    /\ LET end == AfterAwait(outcome) IN
       uploader' =
         [uploader EXCEPT
            !.message = end.message,
            !.isUploading =
                IF op.handler = "handleFileUpload" THEN FALSE ELSE @,
            !.isIngesting =
                IF op.handler \in IngestHandlers THEN FALSE ELSE @,
            !.pending = @ \ {op},
            !.settled = Append(@, [id |-> op.id, handler |-> op.handler,
                                   outcome |-> outcome,
                                   onUploadSuccess |-> end.calls])]
    /\ UNCHANGED <<errorCall, now>>
    /\ UNCHANGED <<cellVars, serviceVars, indexVars, askVars, chatVars, searchVars, homeVars, backendVars>>

InitUploader ==
    /\ uploader = NoUploader
    /\ errorCall = NoErrorCall
    /\ now = 0
    /\ IdleServices
    /\ IdleOthers

NextUploader ==
    \/ \E file \in BOOLEAN : HandleFileUpload(file)
    \/ \E handler \in IngestHandlers : HandleIngest(handler)
    \/ \E op \in uploader.pending, outcome \in FetchOutcomes :
           HandlerEnds(op, outcome)

SpecUploader == InitUploader /\ [][NextUploader]_vars

(***************************************************************************)
(* Notions the properties of cell.ts are stated with, defined from the     *)
(* grammar and from positional notation rather than from the code          *)
(***************************************************************************)
RECURSIVE Pow(_, _)
Pow(b, e) == IF e = 0 THEN 1 ELSE b * Pow(b, e - 1)

\* one or more letters A-Z followed by one or more digits
IsLettersThenDigits(s) ==
    \E k \in 1..(Len(s) - 1) :
        /\ \A i \in 1..k : IsUpperLetter(s[i])
        /\ \A i \in (k + 1)..Len(s) : IsDigit(s[i])

LettersOf(s) == SelectSeq(s, IsUpperLetter)

DigitsOf(s) == SelectSeq(s, IsDigit)

RECURSIVE SumTo(_, _)
SumTo(f, n) == IF n = 0 THEN 0 ELSE f[n] + SumTo(f, n - 1)

\* sum of digit_i * 10^(n-i)
DecimalValue(ds) ==
    SumTo([i \in 1..Len(ds) |-> DigitValue(ds[i]) * Pow(10, Len(ds) - i)],
          Len(ds))

\* sum of letterValue(L_i) * 26^(n-i), A = 1 .. Z = 26
Bijective26(ls) ==
    SumTo([i \in 1..Len(ls) |-> LetterValue(ls[i]) * Pow(26, Len(ls) - i)],
          Len(ls))

Reverse(s) == [i \in 1..Len(s) |-> s[Len(s) + 1 - i]]

\* the letters of col, lowest order first: (col-1) mod 26, col = (col-1) div 26
RECURSIVE LowOrderFirst(_)
LowOrderFirst(col) ==
    IF col = 0 THEN <<>>
    ELSE <<UpperLetters[((col - 1) % 26) + 1]>> \o LowOrderFirst((col - 1) \div 26)

\* the smallest column written with k letters: 1, 27, 703, ...
RECURSIVE FirstColumnOfLength(_)
FirstColumnOfLength(k) ==
    IF k = 0 THEN 0 ELSE 26 * FirstColumnOfLength(k - 1) + 1

RECURSIVE DropLeadingZeros(_)
DropLeadingZeros(ds) ==
    IF Len(ds) > 1 /\ Head(ds) = "0" THEN DropLeadingZeros(Tail(ds)) ELSE ds

\* a normalized reference with the leading zeros of its row removed
Canonical(s) == LettersOf(s) \o DropLeadingZeros(DigitsOf(s))

FirstCallOn(tag, name) ==
    /\ input.tag = tag
    /\ Len(calls) >= 1
    /\ calls[1] = name

JustCalled(tag, name) == input.tag = tag /\ calls = <<name>>

(***************************************************************************)
(* C1: for every row in 1..10000 and column in 1..702, parsing the         *)
(* reference built by createCellReference(row, column) gives back that row *)
(* (parseRowFromCell, parseCellReference) and that column                  *)
(* (parseColumnFromCell, parseCellReference).                              *)
(***************************************************************************)
C1_FormatThenParse ==
    ( /\ input.tag = "args"
      /\ input.row \in 1..10000
      /\ input.column \in 1..702
      /\ Len(calls) = 2
      /\ calls[1] = "createCellReference" )
    => /\ calls[2] = "parseRowFromCell" => cur = NumVal(input.row)
       /\ calls[2] = "parseColumnFromCell" => cur = NumVal(input.column)
       /\ calls[2] = "parseCellReference" =>
              /\ cur.tag = "ref"
              /\ cur.row = input.row
              /\ cur.column = input.column
       /\ calls[2] = "isValidCellReference" => cur = BoolVal(TRUE)

C1_Witness ==
    /\ input = ArgsVal(10000, 702)
    /\ calls = <<"createCellReference", "parseCellReference">>
    /\ cur.tag = "ref"
    /\ cur.row = 10000
    /\ cur.column = 702

(***************************************************************************)
(* C2 as stated: for every valid reference s, createCellReference of the   *)
(* parsed row and column equals s trimmed and upper-cased, leading zeros   *)
(* of the row included.                                                    *)
(***************************************************************************)
C2_ParseThenFormatIsNormalize ==
    ( /\ input.tag = "str"
      /\ calls = <<"parseCellReference", "createCellReference">> )
    => cur = StrVal(Normalize(input.s))

(***************************************************************************)
(* C2 amended: for every valid reference s, createCellReference of the     *)
(* parsed row and column equals s trimmed, upper-cased and with the        *)
(* leading zeros of its row digits removed; it equals normalize(s) exactly *)
(* when the row digits have no leading zero.                               *)
(***************************************************************************)
C2_ParseThenFormatIsCanonical ==
    ( /\ input.tag = "str"
      /\ calls = <<"parseCellReference", "createCellReference">> )
    => /\ cur = StrVal(Canonical(Normalize(input.s)))
       /\ (cur = StrVal(Normalize(input.s)))
              <=> (Head(DigitsOf(Normalize(input.s))) # "0")

C2_Witness ==
    /\ input = StrVal(<<" ", "a", "0", "2">>)
    /\ calls = <<"parseCellReference", "createCellReference">>
    /\ cur = StrVal(<<"A", "2">>)

(***************************************************************************)
(* C3: a string that, trimmed and upper-cased, is not letters A-Z followed *)
(* by digits, or whose row number is below 1, is rejected:                 *)
(* parseRowFromCell and parseCellReference throw and isValidCellReference  *)
(* returns false; "2A", "", "A0" and "A-1" are among them.                 *)
(***************************************************************************)
RejectedExamples ==
    {<<"2", "A">>, <<>>, <<"A", "0">>, <<"A", "-", "1">>}

ShouldBeRejected(s) ==
    \/ ~IsLettersThenDigits(Normalize(s))
    \/ DecimalValue(DigitsOf(Normalize(s))) < 1
    \/ s \in RejectedExamples

C3_InvalidRejected ==
    ( /\ input.tag = "str"
      /\ Len(calls) = 1
      /\ ShouldBeRejected(input.s) )
    => /\ calls[1] \in {"parseRowFromCell", "parseCellReference"}
              => cur.tag = "throw"
       /\ calls[1] = "isValidCellReference" => cur = BoolVal(FALSE)

C3_Witness ==
    /\ input = StrVal(<<"A", "0">>)
    /\ calls = <<"isValidCellReference">>
    /\ cur = BoolVal(FALSE)

(***************************************************************************)
(* C4: parseColumnFromCell decodes the letters as bijective base-26: the   *)
(* sum of letterValue(Li) * 26^(n-i) with A=1 .. Z=26; A=1, Z=26, AA=27,   *)
(* AZ=52, BA=53, ZZ=702; distinct letter strings decode to distinct        *)
(* column numbers.                                                         *)
(***************************************************************************)
ColumnExamples ==
    { <<<<"A">>, 1>>, <<<<"Z">>, 26>>, <<<<"A", "A">>, 27>>,
      <<<<"A", "Z">>, 52>>, <<<<"B", "A">>, 53>>, <<<<"Z", "Z">>, 702>> }

\* the letter strings of the drawn references
LetterStrings ==
    {ls \in RefInputs : ls # <<>> /\ \A i \in 1..Len(ls) : IsUpperLetter(ls[i])}

C4_ColumnIsBijectiveBase26 ==
    ( /\ JustCalled("str", "parseColumnFromCell")
      /\ cur.tag = "num" )
    => LET letters == LettersOf(Normalize(input.s)) IN
       /\ cur.n = Bijective26(letters)
       /\ \A e \in ColumnExamples : letters = e[1] => cur.n = e[2]
       /\ \A other \in LetterStrings :
              parseColumnFromCell(other \o <<"1">>).n = cur.n => other = letters

C4_Witness ==
    /\ input = StrVal(<<"a", "Z", "1">>)
    /\ calls = <<"parseColumnFromCell">>
    /\ cur = NumVal(52)

(***************************************************************************)
(* C5: createCellReference(row, col) returns the bijective base-26 letters *)
(* of col (lowest-order letter first from (col-1) mod 26, col =            *)
(* (col-1) div 26 until col = 0, then reversed) followed by the decimal    *)
(* row; the loop ends after as many rounds as col has letters;             *)
(* format(2,1)="A2", format(10,27)="AA10", format(100,702)="ZZ100".        *)
(***************************************************************************)
FormatExamples ==
    { <<2, 1, <<"A", "2">>>>,
      <<10, 27, <<"A", "A", "1", "0">>>>,
      <<100, 702, <<"Z", "Z", "1", "0", "0">>>> }

C5_FormatIsLettersThenRow ==
    ( /\ JustCalled("args", "createCellReference")
      /\ input.row >= 1
      /\ input.column >= 1 )
    => /\ cur.tag = "str"
       /\ IsLettersThenDigits(cur.s)
       /\ LettersOf(cur.s) = Reverse(LowOrderFirst(input.column))
       /\ LET k == Len(LettersOf(cur.s)) IN
              /\ FirstColumnOfLength(k) <= input.column
              /\ input.column < FirstColumnOfLength(k + 1)
       /\ DecimalValue(DigitsOf(cur.s)) = input.row
       /\ Head(DigitsOf(cur.s)) # "0"
       /\ \A e \in FormatExamples :
              (input.row = e[1] /\ input.column = e[2]) => cur.s = e[3]

C5_Witness ==
    /\ input = ArgsVal(100, 702)
    /\ calls = <<"createCellReference">>
    /\ cur = StrVal(<<"Z", "Z", "1", "0", "0">>)

(***************************************************************************)
(* C6: a reference that satisfies the grammar but has a row below 1 fails  *)
(* with the row error, one that violates the grammar fails with a          *)
(* reference error (the format error unless the string is empty); the two  *)
(* are distinguishable, and no CellReference with row < 1 is returned.     *)
(***************************************************************************)
C6_RowErrorVersusReferenceError ==
    /\ ErrRow \notin {ErrFormat, ErrEmpty}
    /\ ( /\ input.tag = "str"
         /\ Len(calls) = 1
         /\ calls[1] \in {"parseRowFromCell", "parseCellReference"} )
       => LET n == Normalize(input.s) IN
          /\ (IsLettersThenDigits(n) /\ DecimalValue(DigitsOf(n)) < 1)
                 => cur = Thrown(ErrRow)
          /\ ~IsLettersThenDigits(n)
                 => /\ cur.tag = "throw"
                    /\ cur.msg = IF input.s = <<>> THEN ErrEmpty ELSE ErrFormat
    /\ cur.tag = "ref" => cur.row >= 1

C6_Witness ==
    /\ input = StrVal(<<"B", "0", "0", "0">>)
    /\ calls = <<"parseCellReference">>
    /\ cur = Thrown(ErrRow)

(***************************************************************************)
(* C7: when retrieval yields an empty context the envelope has answer =    *)
(* null, reason "no_context" and status ok, and no chat-completion call is *)
(* made for the query; on the client such an envelope shows no AI answer:  *)
(* Chat shows the envelope's message or, without one, its fixed            *)
(* empty-response notice, and LeadStatusSearch renders no answer block.    *)
(***************************************************************************)
Last(s) == s[Len(s)]

C7_NoContextNoAnswer ==
    /\ \A s \in Screens :
          (req[s].stage \in {"answered", "settled"} /\ req[s].context = <<>>)
          => /\ req[s].envelope.status = "ok"
             /\ req[s].envelope.answer = Null
             /\ req[s].envelope.reason = Str(<<"no_context">>)
             /\ req[s].completions = 0
    /\ (req["chat"].stage = "settled" /\ req["chat"].context = <<>>)
       => /\ messages # <<>>
          /\ Last(messages).role = "assistant"
          /\ Last(messages).content =
                 IF Truthy(req["chat"].envelope.message)
                 THEN req["chat"].envelope.message.v
                 ELSE Placeholder
          /\ Last(messages).content \notin AnswerTexts
    /\ (req["search"].stage = "settled" /\ req["search"].context = <<>>)
       => /\ response = [present |-> TRUE, data |-> req["search"].envelope]
          /\ DisplayedAnswer(response) = Null

C7_Witness ==
    /\ collection # <<>>
    /\ req["chat"].stage = "settled"
    /\ req["chat"].context = <<>>
    /\ req["chat"].envelope.reason = Str(<<"no_context">>)
    /\ Len(messages) = 2
    /\ Last(messages).content = NoContextMessage

(***************************************************************************)
(* C8: ingestion is idempotent: a run over sources that are unchanged      *)
(* since they were indexed leaves the set of chunk ids of the collection,  *)
(* and so total_chunks, as they were before the run.                       *)
(***************************************************************************)
total_chunks == Len(collection)

UnchangedSources ==
    \A doc \in Range(run.queue) : run.texts[doc] = run.indexed[doc]

C8_IngestIdempotent ==
    (run.state = "Done" /\ UnchangedSources)
    => /\ Ids(collection) = Ids(run.before)
       /\ total_chunks = Len(run.before)

C8_Witness ==
    /\ run.state = "Done"
    /\ run.number = 2
    /\ UnchangedSources
    /\ Len(run.queue) = 2
    /\ total_chunks = 2 * MaxChunks

(***************************************************************************)
(* C9 as stated: after a source fails, the collection holds no chunk of    *)
(* the failed source and every chunk of the sources completed earlier in   *)
(* the run.                                                                *)
(***************************************************************************)
CompletedRetained ==
    \A doc \in run.completed :
        Range(ChunksOf(doc, run.texts[doc])) \subseteq Range(collection)

C9_NoChunkOfFailedSource ==
    run.state = "Failed"
    => /\ EntriesOf(collection, run.failed) = <<>>
       /\ CompletedRetained

(***************************************************************************)
(* C9 amended: after a source fails, the collection holds for the failed   *)
(* source exactly the entries it held when the run began (none if the      *)
(* source had never been indexed), so no chunk written by the failed       *)
(* ingestion remains, and it holds every chunk of the sources completed    *)
(* earlier in the run.                                                     *)
(***************************************************************************)
C9_FailedSourceRolledBack ==
    run.state = "Failed"
    => /\ EntriesOf(collection, run.failed) = EntriesOf(run.before, run.failed)
       /\ run.indexed[run.failed] = NoDocument
              => EntriesOf(collection, run.failed) = <<>>
       /\ CompletedRetained

C9_Witness ==
    /\ run.state = "Failed"
    /\ run.number = 1
    /\ Len(run.queue) = 2
    /\ run.completed = {run.queue[1]}
    /\ run.failed = run.queue[2]
    /\ run.texts[run.failed] = MaxChunks
    /\ EntriesOf(collection, run.failed) = <<>>
    /\ Len(collection) = run.texts[run.queue[1]]
    /\ Len(collection) > 0

(***************************************************************************)
(* C10: a search that runs concurrently with a reindex observes the        *)
(* complete index of before the reindex or the complete index of after     *)
(* it: what a finished search has read is the index it started on or one   *)
(* committed while it ran, never an empty or partly rebuilt index.         *)
(***************************************************************************)
IsPrefix(s, u) == Len(s) <= Len(u) /\ s = SubSeq(u, 1, Len(s))

C10_SearchSeesWholeIndex ==
    /\ scan.state = "done" => scan.seen \in scan.versions
    /\ scan.state = "reading"
           => \E version \in scan.versions : IsPrefix(scan.seen, version)

C10_Witness ==
    /\ scan.state = "done"
    /\ reindex.state = "rebuilding"
    /\ reindex.staging # <<>>
    /\ reindex.todo # <<>>
    /\ scan.seen = collection
    /\ Len(scan.seen) = 2 * MaxChunks

(***************************************************************************)
(* C13: a run moves only along Pending -> Chunking -> Embedding ->         *)
(* Indexing -> Done, one state at a time and never back; it can fail in    *)
(* every state other than Done and Failed, and it never leaves Done or     *)
(* Failed (a later run is another run, which starts in Pending).           *)
(***************************************************************************)
Forward ==
    {<<"Pending", "Chunking">>, <<"Chunking", "Embedding">>,
     <<"Embedding", "Indexing">>, <<"Indexing", "Done">>}

SameRun == run'.number = run.number

C13_RunStateMachine ==
    /\ [][(SameRun /\ run'.state # run.state)
             => \/ <<run.state, run'.state>> \in Forward
                \/ Active(run) /\ run'.state = "Failed"]_vars
    /\ [][~SameRun => ~Active(run) /\ run'.state = "Pending"]_vars
    /\ [](Active(run) => ENABLED FailRun)

C13_Witness ==
    /\ run.number = 2
    /\ run.state = "Failed"
    /\ Len(run.queue) = 2
    /\ run.failed = run.queue[2]
    /\ run.completed = {run.queue[1]}
    /\ \E doc \in Docs : run.indexed[doc] # NoDocument

(***************************************************************************)
(* C11: search(queryVector, k, filter) returns min(k, number of entries    *)
(* that satisfy the filter) entries, so at most k; each satisfies the      *)
(* filter; they are in descending similarity, entries as similar in        *)
(* insertion order; and no entry left out that satisfies the filter ranks  *)
(* before one returned.                                                    *)
(***************************************************************************)
Matching ==
    {e \in Range(vectorIndex.entries) : Matches(e, vectorIndex.filter)}

\* insertion order: the position of the entry in the index
InsertedBefore(e, f) ==
    \E i, j \in 1..Len(vectorIndex.entries) :
        i < j /\ vectorIndex.entries[i] = e /\ vectorIndex.entries[j] = f

RanksBefore(e, f) ==
    LET se == Similarity(vectorIndex.queryVector, e.vector)
        sf == Similarity(vectorIndex.queryVector, f.vector)
    IN  se > sf \/ (se = sf /\ InsertedBefore(e, f))

C11_SearchFiltersThenRanks ==
    vectorIndex.state = "searched"
    => LET result == vectorIndex.result IN
       /\ Len(result) <= vectorIndex.k
       /\ Len(result) = IF vectorIndex.k < Cardinality(Matching)
                        THEN vectorIndex.k ELSE Cardinality(Matching)
       /\ Range(result) \subseteq Matching
       /\ \A i, j \in 1..Len(result) : i < j => RanksBefore(result[i], result[j])
       /\ \A e \in Matching \ Range(result) :
              \A i \in 1..Len(result) : RanksBefore(result[i], e)

\* two of three entries satisfy the filter, the most similar entry does
\* not, and the two returned are as similar as each other
C11_Witness ==
    /\ vectorIndex.state = "searched"
    /\ Len(vectorIndex.entries) = 3
    /\ vectorIndex.k = 2
    /\ vectorIndex.filter = "called"
    /\ Len(vectorIndex.result) = 2
    /\ Cardinality(Matching) = 2
    /\ \E e \in Range(vectorIndex.entries) \ Matching :
           \A f \in Matching : RanksBefore(e, f)
    /\ Similarity(vectorIndex.queryVector, vectorIndex.result[1].vector)
           = Similarity(vectorIndex.queryVector, vectorIndex.result[2].vector)

(***************************************************************************)
(* C12: with L the length of the text, S the chunk size and O < S the      *)
(* overlap, split produces no chunk for the empty text, one chunk for a    *)
(* text of 1..S characters and ceil((L-O)/(S-O)) chunks for L > S;         *)
(* consecutive chunks share O characters; and the chunks cover the text    *)
(* without gaps: the first starts the text, the last ends it, and the      *)
(* chunk texts joined without their overlaps are the text.                 *)
(***************************************************************************)
CeilDiv(a, b) == (a + b - 1) \div b

\* the chunk texts joined, each without the overlap with the one before
RECURSIVE Joined(_, _)
Joined(chunks, overlap) ==
    IF chunks = <<>> THEN <<>>
    ELSE IF Len(chunks) = 1 THEN chunks[1].text
    ELSE LET last == chunks[Len(chunks)].text IN
         Joined(SubSeq(chunks, 1, Len(chunks) - 1), overlap)
         \o SubSeq(last, overlap + 1, Len(last))

C12_ChunkCountAndCoverage ==
    chunker.state = "done"
    => LET L == Len(chunker.text)
           S == chunker.chunkSize
           O == chunker.overlap
           chunks == chunker.chunks
           n == Len(chunks)
       IN  /\ L = 0 => n = 0
           /\ (0 < L /\ L <= S) => n = 1
           /\ L > S => n = CeilDiv(L - O, S - O)
           /\ \A i \in 1..n :
                  /\ chunks[i].length \in 1..S
                  /\ chunks[i].length = Len(chunks[i].text)
                  /\ chunks[i].text
                        = SubSeq(chunker.text, chunks[i].startOffset + 1,
                                 chunks[i].startOffset + chunks[i].length)
           /\ \A i \in 1..(n - 1) :
                  /\ chunks[i].startOffset + chunks[i].length
                        - chunks[i + 1].startOffset = O
                  /\ chunks[i + 1].length >= O
                  /\ SubSeq(chunks[i].text, chunks[i].length - O + 1,
                            chunks[i].length)
                        = SubSeq(chunks[i + 1].text, 1, O)
           /\ n > 0 => /\ chunks[1].startOffset = 0
                       /\ chunks[n].startOffset + chunks[n].length = L
           /\ Joined(chunks, O) = chunker.text

\* eight characters in chunks of four with an overlap of one: three
\* chunks, the last one of two characters
C12_Witness ==
    /\ chunker.state = "done"
    /\ Len(chunker.text) = 8
    /\ chunker.chunkSize = 4
    /\ chunker.overlap = 1
    /\ Len(chunker.chunks) = 3
    /\ chunker.chunks[3].length = 2

(***************************************************************************)
(* C14: embedMany preserves the order of its input: the list it returns    *)
(* has the length of the list of texts and its i-th vector is the          *)
(* embedding of the i-th text; when the embedding of a text fails the      *)
(* call fails and returns no list, and no later text is sent.              *)
(***************************************************************************)
C14_EmbedManyPreservesOrder ==
    embedding.fn = "embedMany"
    => /\ embedding.state = "returned"
          => /\ Len(embedding.value) = Len(embedding.texts)
             /\ \A i \in 1..Len(embedding.texts) :
                    embedding.value[i] = EmbeddingOf(embedding.texts[i])
       /\ embedding.state = "thrown"
          => /\ embedding.value = <<>>
             /\ embedding.pos < Len(embedding.texts)
             /\ Len(embedding.sent) <= embedding.pos + 1
       /\ embedding.state \in {"returned", "thrown", "awaiting"}
          => \A i \in 1..Len(embedding.sent) :
                 embedding.sent[i] = embedding.texts[i]

\* three different texts embedded in order
C14_Witness ==
    /\ embedding.fn = "embedMany"
    /\ embedding.state = "returned"
    /\ embedding.texts = <<<<"beta">>, <<>>, <<"acme">>>>
    /\ embedding.value = <<<<0, 1>>, <<1, 1>>, <<1, 0>>>>

\* the second of three texts fails after the first was embedded
C14_WitnessFailure ==
    /\ embedding.fn = "embedMany"
    /\ embedding.state = "thrown"
    /\ Len(embedding.texts) = 3
    /\ embedding.pos = 1
    /\ embedding.embeddings # <<>>
    /\ embedding.value = <<>>

(***************************************************************************)
(* C15: with the key missing (unset or empty) an embedding call fails      *)
(* with the missing-key error before any request is sent to the provider;  *)
(* that error differs from the one raised for a malformed embedding        *)
(* response and from those the provider raises for an input it refuses,    *)
(* none of which is raised when the key is missing.                        *)
(***************************************************************************)
KeyMissing == embedding.key \in {Undefined, Str(<<>>)}

C15_MissingKeyFailsFirst ==
    /\ MissingKeyMessage \notin {InvalidResponseMessage} \cup SdkErrors
    /\ (KeyMissing /\ embedding.state # "idle" /\ embedding.texts # <<>>)
       => /\ embedding.state = "thrown"
          /\ embedding.message = MissingKeyMessage
          /\ embedding.sent = <<>>
    /\ (~KeyMissing /\ embedding.state = "thrown")
       => /\ embedding.message \in {InvalidResponseMessage} \cup SdkErrors
          /\ embedding.sent # <<>>

\* embedText called with the key set to the empty string
C15_Witness ==
    /\ embedding.key = Str(<<>>)
    /\ embedding.fn = "embedText"
    /\ embedding.state = "thrown"
    /\ embedding.message = MissingKeyMessage
    /\ embedding.sent = <<>>

(***************************************************************************)
(* C16: when the timeout of a call fires, the caller receives an ApiError  *)
(* whose code is 'TIMEOUT'.                                                *)
(***************************************************************************)
C16_TimeoutIsTyped ==
    (client.state = "thrown" /\ client.cause = "timeout")
    => /\ client.error.name = "ApiError"
       /\ client.error.code = Str(<<"TIMEOUT">>)

(***************************************************************************)
(* C20: on a page served over https a call goes out only to an https       *)
(* backend URL: a URL that does not begin with https://, http://localhost  *)
(* and http://127.0.0.1 among them, is refused with an ApiError of code    *)
(* INVALID_BACKEND_URL; an unset or blank URL is refused, on any page,     *)
(* with code MISSING_ENV_VAR; and every URL resolveBackendBase returns is  *)
(* the configured one, trimmed, without a trailing slash.                  *)
(***************************************************************************)
\* the configured URL without the blanks around it
Configured == IF IsNullish(client.env) THEN <<>> ELSE Trim(client.env.v)

ServedOverHttps ==
    /\ client.origin # NoWindow
    /\ client.origin[1] = "https:"

BeginsWithHttps(url) ==
    /\ Len(url) >= 3
    /\ url[1] \in {"https:", "HTTPS:"}
    /\ SubSeq(url, 2, 3) = <<"/", "/">>

\* the base URL of the request: the endpoint without the path of the call
BaseOf(endpoint, path) == SubSeq(endpoint, 1, Len(endpoint) - Len(path))

RefusedWith(code) ==
    /\ client.state = "thrown"
    /\ client.cause = "config"
    /\ client.endpoint = <<>>
    /\ client.error.name = "ApiError"
    /\ client.error.code = Str(<<code>>)

C20_HttpsPageHttpsBackend ==
    client.state # "idle"
    => /\ Configured = <<>> => RefusedWith("MISSING_ENV_VAR")
       /\ (ServedOverHttps /\ Configured # <<>> /\ ~BeginsWithHttps(Configured))
          => RefusedWith("INVALID_BACKEND_URL")
       /\ client.endpoint # <<>>
          => LET base == BaseOf(client.endpoint, PathOf(client.fn)) IN
             /\ base \o PathOf(client.fn) = client.endpoint
             /\ base = <<>> \/ base[Len(base)] # "/"
             /\ \E n \in 0..Len(Configured) :
                    /\ base = SubSeq(Configured, 1, n)
                    /\ \A i \in (n + 1)..Len(Configured) : Configured[i] = "/"
             /\ ServedOverHttps
                => /\ BeginsWithHttps(Configured)
                   /\ base[1] \in {"https:", "HTTPS:"}

\* an https page and an https backend URL given with blanks and a slash
C20_Witness ==
    /\ ServedOverHttps
    /\ client.state = "fetching"
    /\ client.env = Str(<<" ">> \o Url("https:", <<"api.example.com", "/">>)
                        \o <<" ">>)
    /\ client.endpoint = Url("https:", <<"api.example.com">>) \o PathOf(client.fn)

\* an https page and a backend URL that is http but not local
C20_WitnessRefused ==
    /\ ServedOverHttps
    /\ client.env = Str(Url("http:", <<"api.example.com">>))
    /\ RefusedWith("INVALID_BACKEND_URL")

(***************************************************************************)
(* C17: a proxy route answers with the status and the body of the backend  *)
(* whenever the backend has answered, and with status 500 and a JSON body  *)
(* of error and detail whenever the backend URL is unset, the body of the  *)
(* request cannot be read or the fetch fails; it always answers.           *)
(***************************************************************************)
C17_ProxyPassesOn ==
    (route.name \in Proxies /\ route.state = "responded")
    => IF route.backend.answered
       THEN /\ route.status = route.backend.status
            /\ route.body = TextBody(route.backend.text)
       ELSE /\ route.status = 500
            /\ route.body.k = "error"
            /\ route.body.error # ""
            /\ route.body.detail.k = "string"

(***************************************************************************)
(* C18: a cell-lookup request whose cell parameter is missing or is not a  *)
(* valid cell reference (letters followed by a row of 1 or more) is        *)
(* answered by the route with an error of its own and nothing is sent to   *)
(* the backend; a request with a valid cell is sent on and answered with   *)
(* the backend's record or its not-found result.                           *)
(***************************************************************************)
ValidCellParam(cell) ==
    /\ cell.k = "string"
    /\ IsLettersThenDigits(Normalize(cell.v))
    /\ DecimalValue(DigitsOf(Normalize(cell.v))) >= 1

C18_InvalidCellNotForwarded ==
    (route.name = "cell" /\ route.state # "idle")
    => IF ValidCellParam(route.request.cell)
       THEN /\ Len(route.forwarded) = 1
            /\ route.forwarded[1].payload = route.request.cell
            /\ (route.state = "responded" /\ route.backend.answered
                /\ route.backend.status = 200 /\ IsJson(route.backend.text))
               => /\ route.status = 200
                  /\ route.body = DataJson(route.backend.text)
            /\ (route.state = "responded" /\ route.backend.answered
                /\ route.backend.status = 404)
               => route.status = 404
       ELSE /\ route.forwarded = <<>>
            /\ route.state = "responded"
            /\ route.status \in 400..499
            /\ route.body.k = "error"
            /\ route.body.error # ""

(***************************************************************************)
(* C19 as stated: the chat route answers a request whose message is        *)
(* missing or whitespace-only with status 400 and an error body and sends  *)
(* nothing to the backend; every request it sends to the backend carries   *)
(* a message that is not blank.                                            *)
(***************************************************************************)
MissingOrBlank(message) ==
    \/ message.k \in {"undefined", "null"}
    \/ message.k = "string" /\ \A i \in 1..Len(message.v) : message.v[i] = " "

ChatRequestRead ==
    /\ route.name = "chat"
    /\ route.state # "idle"
    /\ route.request.readable

ForwardedMessagesNotBlank ==
    route.name = "chat"
    => \A i \in 1..Len(route.forwarded) :
           /\ route.forwarded[i].payload = route.request.message
           /\ route.forwarded[i].payload.k = "string"
           /\ ~MissingOrBlank(route.forwarded[i].payload)

C19_BlankMessageIs400 ==
    /\ (ChatRequestRead /\ MissingOrBlank(route.request.message))
       => /\ route.state = "responded"
          /\ route.status = 400
          /\ route.body.k = "error"
          /\ route.body.error # ""
          /\ route.forwarded = <<>>
    /\ ForwardedMessagesNotBlank

(***************************************************************************)
(* C19 amended: with the Gemini API key set, the chat route answers a      *)
(* request whose message is missing or whitespace-only with status 400     *)
(* and an error body; with the key unset or empty it answers every         *)
(* request, that one included, with status 500 and an error body; in both  *)
(* cases it sends nothing to the backend; every request it sends to the    *)
(* backend carries a message that is not blank.                            *)
(***************************************************************************)
C19_BlankMessageIs400WhenKeySet ==
    /\ (ChatRequestRead /\ MissingOrBlank(route.request.message))
       => /\ route.state = "responded"
          /\ route.status = IF Truthy(route.key) THEN 400 ELSE 500
          /\ route.body.k = "error"
          /\ route.body.error # ""
          /\ route.forwarded = <<>>
    /\ (route.name = "chat" /\ route.state # "idle" /\ ~Truthy(route.key))
       => /\ route.state = "responded"
          /\ route.status = 500
          /\ route.body.k = "error"
          /\ route.forwarded = <<>>
    /\ ForwardedMessagesNotBlank

\* the key is set and the message is blanks only
C19_Witness ==
    /\ ChatRequestRead
    /\ Truthy(route.key)
    /\ Truthy(route.env)
    /\ route.request.message = Str(<<" ", " ">>)
    /\ route.status = 400
    /\ route.forwarded = <<>>

\* a message with text in it has been sent on and answered
C19_WitnessForwarded ==
    /\ ChatRequestRead
    /\ route.request.message = Str(<<" ", "h", "i", " ">>)
    /\ Len(route.forwarded) = 1
    /\ route.state = "responded"
    /\ route.status = 200

(***************************************************************************)
(* C28: parseColumnFromCell fails for every reference that is not a valid  *)
(* cell reference: on every string for which parseRowFromCell throws       *)
(* (equivalently, isValidCellReference returns false) parseColumnFromCell  *)
(* throws too and returns no column number.                                *)
(***************************************************************************)
C28_ColumnFailsOnInvalid ==
    ( /\ JustCalled("str", "parseColumnFromCell")
      /\ \/ parseRowFromCell(input.s).tag = "throw"
         \/ isValidCellReference(input.s) = BoolVal(FALSE) )
    => cur.tag = "throw"

(***************************************************************************)
(* C29: getErrorCode is total and deterministic and returns the first      *)
(* match in this order: the error's own non-empty code; TIMEOUT when the   *)
(* name is 'AbortError'; NETWORK_ERROR when the message contains 'fetch';  *)
(* PARSE_ERROR when it contains 'JSON'; CLIENT_ERROR when the status is in *)
(* 400..499; SERVER_ERROR when it is 500 or more; else UNKNOWN_ERROR.      *)
(* getLocalizedErrorMessage returns the text of an unexpected error for    *)
(* every code outside the six known ones.                                  *)
(***************************************************************************)
KnownCodes ==
    {Str(<<c>>) : c \in {"TIMEOUT", "NETWORK_ERROR", "PARSE_ERROR",
                         "CLIENT_ERROR", "SERVER_ERROR", "UNKNOWN_ERROR"}}

\* a code that is there and is neither the empty string nor the number 0
NonEmptyCode(code) ==
    code \notin {Undefined, Null, Str(<<>>), NumberCode("0")}

\* the cases of the claim, in its order, each as <<condition, code>>
CodeCases(e) ==
    << <<NonEmptyCode(e.code), e.code>>,
       <<e.name = "AbortError", Str(<<"TIMEOUT">>)>>,
       <<\E i \in 1..Len(e.message) : e.message[i] = "fetch",
         Str(<<"NETWORK_ERROR">>)>>,
       <<\E i \in 1..Len(e.message) : e.message[i] = "JSON",
         Str(<<"PARSE_ERROR">>)>>,
       <<e.status \in 400..499, Str(<<"CLIENT_ERROR">>)>>,
       <<e.status >= 500, Str(<<"SERVER_ERROR">>)>>,
       <<TRUE, Str(<<"UNKNOWN_ERROR">>)>> >>

FirstMatch(e) ==
    LET cases == CodeCases(e)
        first == CHOOSE i \in 1..Len(cases) :
                    /\ cases[i][1]
                    /\ \A j \in 1..(i - 1) : ~cases[j][1]
    IN  cases[first][2]

C29_ErrorCodeIsFirstMatch ==
    /\ errorCall.state \in {"coded", "worded"}
           => /\ errorCall.code = FirstMatch(errorCall.arg)
              /\ errorCall.code # Undefined
    /\ errorCall.state = "worded"
           => /\ errorCall.message # <<>>
              /\ errorCall.code \notin KnownCodes
                     => errorCall.message = <<"unexpected", "error">>
              /\ \A known \in KnownCodes \ {Str(<<"UNKNOWN_ERROR">>)} :
                     errorCall.code = known
                         => errorCall.message # <<"unexpected", "error">>

\* an error with a status of 500 whose message names fetch and JSON: the
\* message decides, and fetch before JSON; and a code outside the known ones
C29_Witness ==
    /\ errorCall.state = "worded"
    /\ errorCall.arg = Err("TypeError", <<"fetch", "returned", "bad", "JSON">>,
                           500, Str(<<>>))
    /\ errorCall.code = Str(<<"NETWORK_ERROR">>)

C29_WitnessOtherCode ==
    /\ errorCall.state = "worded"
    /\ errorCall.arg.code = Str(<<"MISSING_ENV_VAR">>)
    /\ errorCall.code = Str(<<"MISSING_ENV_VAR">>)
    /\ errorCall.message = <<"unexpected", "error">>

(***************************************************************************)
(* C27: every failure of chat, ingestExcel, uploadFile, ingestData and     *)
(* getStats reaches the caller as an ApiError, never as another error and  *)
(* never as a normal return; when the failure was a response that is not   *)
(* 2xx, the ApiError carries the status of that response and the matching  *)
(* code: CLIENT_ERROR for 4xx, SERVER_ERROR for 5xx.                       *)
(***************************************************************************)
C27_FailureIsApiErrorWithStatus ==
    /\ client.state = "returned"
           => /\ client.cause = ""
              /\ client.response.status \in 200..299
              /\ client.response.parses
    /\ client.state = "thrown"
           => /\ client.cause \in {"config", "http", "parse", "network",
                                   "timeout"}
              /\ client.error.name = "ApiError"
    /\ client.state = "thrown" /\ client.cause = "http"
           => /\ client.error.status = client.response.status
              /\ client.response.status \in 400..499
                     => client.error.code = Str(<<"CLIENT_ERROR">>)
              /\ client.response.status >= 500
                     => client.error.code = Str(<<"SERVER_ERROR">>)

\* the parts that hold: the error is an ApiError with the matching code,
\* and chat's carries the status
C27_FailureIsApiError ==
    /\ client.state = "returned"
           => /\ client.response.status \in 200..299
              /\ client.response.parses
    /\ client.state = "thrown" => client.error.name = "ApiError"
    /\ client.state = "thrown" /\ client.cause = "http"
           => /\ client.fn = "chat"
                     => client.error.status = client.response.status
              /\ client.response.status \in 400..499
                     => client.error.code = Str(<<"CLIENT_ERROR">>)
              /\ client.response.status >= 500
                     => client.error.code = Str(<<"SERVER_ERROR">>)

(***************************************************************************)
(* C24: in LeadStatusSearch the search history never holds more than 10    *)
(* entries; each completed search puts its entry at the front and, when    *)
(* the history already had 10, drops the oldest one, so that the history   *)
(* is ordered newest first.                                                *)
(***************************************************************************)
NewestFirst(history) ==
    \A i, j \in 1..Len(history) :
        i < j => history[i].timestamp > history[j].timestamp

\* a step that completes a search: its entry is at the front, the entries
\* before it follow in their order, and only the oldest of 10 is left out
EntryPutInFront ==
    /\ Len(searchHistory') >= 1
    /\ searchHistory'[1].question = req["search"].query
    /\ searchHistory'[1].timestamp = now
    /\ LET kept == Len(searchHistory') - 1 IN
       /\ kept = IF Len(searchHistory) = HistoryLimit
                 THEN HistoryLimit - 1 ELSE Len(searchHistory)
       /\ \A i \in 1..kept : searchHistory'[i + 1] = searchHistory[i]

C24_HistoryHoldsTenNewestFirst ==
    /\ [](Len(searchHistory) <= 10 /\ NewestFirst(searchHistory))
    /\ [][req'["search"].stage = "settled" /\ req["search"].stage # "settled"
             => EntryPutInFront]_vars
    /\ [][searchHistory' # searchHistory => EntryPutInFront]_vars

\* the history is full and the entries of the two oldest searches are gone
C24_Witness ==
    /\ Len(searchHistory) = 10
    /\ searchHistory[10].timestamp = 2
    /\ searchHistory[1].timestamp = 11

(***************************************************************************)
(* C25: in LeadStatusSearch.handleSearch a history entry is recorded and   *)
(* the question cleared only when the search request succeeded (a 2xx      *)
(* response with a body that parses); a failed search (a status that is    *)
(* not 2xx, a network failure or a body that does not parse) sets the      *)
(* error, leaves the history and the question unchanged, so that the retry *)
(* button issues the same question again; isLoading is false afterwards in *)
(* both cases.                                                             *)
(***************************************************************************)
\* the step in which the search in flight ends in the given way
SearchEnds(stage) ==
    /\ InFlight(req["search"])
    /\ req'["search"].stage = stage

C25_HistoryOnlyOnSuccess ==
    /\ [][SearchEnds("settled")
             => /\ Len(searchHistory') >= 1
                /\ searchHistory'[1].question = req["search"].query
                /\ question' = <<>>
                /\ ~searchLoading']_vars
    /\ [][SearchEnds("refused") \/ SearchEnds("failed")
             => /\ error' # Null
                /\ searchHistory' = searchHistory
                /\ question' = question
                /\ Trim(question') = req["search"].query
                /\ ~searchLoading']_vars
    /\ [][searchHistory' # searchHistory => SearchEnds("settled")]_vars

\* what holds of a search that fetch or res.json() fails
C25_RejectedSearchKeepsQuestion ==
    /\ [][SearchEnds("settled")
             => /\ Len(searchHistory') >= 1
                /\ searchHistory'[1].question = req["search"].query
                /\ question' = <<>>
                /\ ~searchLoading']_vars
    /\ [][SearchEnds("failed")
             => /\ error' # Null
                /\ searchHistory' = searchHistory
                /\ question' = question
                /\ Trim(question') = req["search"].query
                /\ ~searchLoading']_vars
    /\ [][SearchEnds("refused") => ~searchLoading']_vars

(***************************************************************************)
(* Notions the properties of the Chat component are stated with            *)
(***************************************************************************)
Blank(text) == \A i \in 1..Len(text) : text[i] \in WhiteSpace

\* a step in which chat() is called
RequestIssued ==
    /\ req'["chat"] # req["chat"]
    /\ req'["chat"].stage = "sent"

\* a step in which the call of chat() in flight resolves, or throws
RequestResolves ==
    InFlight(req["chat"]) /\ req'["chat"].stage = "settled"

RequestThrows ==
    InFlight(req["chat"]) /\ req'["chat"].stage = "failed"

UserMessageAdded ==
    /\ Len(messages') > Len(messages)
    /\ messages'[Len(messages')].role = "user"

(***************************************************************************)
(* C22: in the Chat component at most one chat request is in flight at any *)
(* time: a submit is accepted only when the input is not blank and         *)
(* isLoading is false; a submit that arrives otherwise adds no message,    *)
(* issues no request and leaves all state unchanged; and isLoading returns *)
(* to false after every accepted submit, whether the request succeeded or  *)
(* failed.                                                                 *)
(***************************************************************************)
C22_OneChatRequestInFlight ==
    /\ [](isLoading <=> InFlight(req["chat"]))
    /\ [][RequestIssued
             => /\ ~Blank(inputMessage)
                /\ ~isLoading
                /\ ~InFlight(req["chat"])
                /\ req'["chat"].query = inputMessage
                /\ isLoading']_vars
    /\ [][Blank(inputMessage) \/ isLoading
             => ~RequestIssued /\ ~UserMessageAdded]_vars
    /\ [][RequestResolves \/ RequestThrows => ~isLoading']_vars
    /\ (isLoading ~> ~isLoading)

\* two submits were accepted; the first request succeeded, the second failed
C22_Witness ==
    /\ ~isLoading
    /\ Len(messages) = 4
    /\ req["chat"].stage = "failed"
    /\ SubSeq(messages[4].content, 1, Len(ErrorPrefix)) = ErrorPrefix
    /\ messages[2].content = <<"answer">>

(***************************************************************************)
(* C23: in the Chat component every accepted submit appends exactly one    *)
(* user message at once and, when its request settles, exactly one         *)
(* assistant message with a content that is not empty (the answer, else    *)
(* the message of the envelope, else a placeholder, or the text of an      *)
(* error); hence the message list alternates user, assistant and its       *)
(* length is 2 x (settled submits) + (1 if a request is in flight).        *)
(***************************************************************************)
Alternates(ms) ==
    \A i \in 1..Len(ms) :
        ms[i].role = IF i % 2 = 1 THEN "user" ELSE "assistant"

OneMessageAppended(role) ==
    /\ Len(messages') = Len(messages) + 1
    /\ SubSeq(messages', 1, Len(messages)) = messages
    /\ messages'[Len(messages')].role = role

\* the content the claim gives the assistant message of an envelope
ContentOf(envelope) ==
    IF envelope.answer.k = "string" /\ envelope.answer.v # <<>>
    THEN envelope.answer.v
    ELSE IF envelope.message.k = "string" /\ envelope.message.v # <<>>
    THEN envelope.message.v
    ELSE Placeholder

C23_MessagesAlternate ==
    /\ [](/\ Alternates(messages)
          /\ Len(messages) % 2 = (IF InFlight(req["chat"]) THEN 1 ELSE 0)
          /\ \A i \in 1..Len(messages) : messages[i].content # <<>>)
    /\ [][RequestIssued
             => /\ OneMessageAppended("user")
                /\ messages'[Len(messages')].content = inputMessage]_vars
    /\ [][RequestResolves
             => /\ OneMessageAppended("assistant")
                /\ messages'[Len(messages')].content
                       = ContentOf(req["chat"].envelope)]_vars
    /\ [][RequestThrows
             => /\ OneMessageAppended("assistant")
                /\ messages'[Len(messages')].content
                       = ErrorPrefix \o req'["chat"].failure]_vars
    /\ [][messages' # messages
             => \/ RequestIssued \/ RequestResolves \/ RequestThrows
                \/ messages' = <<>>]_vars

\* a request is in flight after one that resolved with neither an answer
\* nor a message
C23_Witness ==
    /\ Len(messages) = 3
    /\ isLoading
    /\ messages[2].content = Placeholder

(***************************************************************************)
(* C21: for every successful chat() call the ChatResponse has one source   *)
(* reference per entry of the sources of the backend's envelope, in the    *)
(* same order, each being {source, content excerpt} for that chunk; the    *)
(* conversion drops, duplicates and reorders no source.                    *)
(***************************************************************************)
\* the ChatResponse of the request that has just resolved, as the Chat
\* component holds it in its assistant message
Converted ==
    /\ req["chat"].stage = "settled"
    /\ messages # <<>>
    /\ req["chat"].envelope.sources.k = "array"

\* an excerpt of a chunk is some of its text: it is not empty
IsExcerpt(content, chunk) == content # <<>>

C21_OneReferencePerSource ==
    Converted
    => LET sources == req["chat"].envelope.sources.v
           context == req["chat"].context
           refs == messages[Len(messages)].sources
       IN  /\ refs.k = "array"
           /\ Len(refs.v) = Len(sources)
           /\ \A i \in 1..Len(sources) :
                 /\ refs.v[i].source = sources[i]
                 /\ IsExcerpt(refs.v[i].content, context[i])

\* what holds: one reference per source, in the order of the envelope
C21_ReferencesInOrder ==
    Converted
    => LET sources == req["chat"].envelope.sources.v
           refs == messages[Len(messages)].sources
       IN  /\ refs.k = "array"
           /\ Len(refs.v) = Len(sources)
           /\ \A i \in 1..Len(sources) : refs.v[i].source = sources[i]

(***************************************************************************)
(* C26: in the Uploader at most one ingest operation (handleIngest or      *)
(* handleIngestExcel) is in flight at any time, both buttons being         *)
(* disabled while isIngesting is true; isIngesting and isUploading are     *)
(* false whenever no corresponding operation is in flight; and             *)
(* onUploadSuccess is called exactly once for each operation that succeeds *)
(* and never for one that fails.                                           *)
(***************************************************************************)
IngestsInFlight == {op \in uploader.pending : op.handler \in IngestHandlers}

UploadsInFlight == uploader.pending \ IngestsInFlight

\* an operation succeeds with a 2xx response whose body is a JSON object
OperationSucceeded(outcome) ==
    outcome.kind = "response" /\ outcome.ok /\ outcome.body = "object"

C26_OneIngestAndCallbackOnSuccess ==
    /\ Cardinality(IngestsInFlight) <= 1
    /\ IngestsInFlight = {} => ~uploader.isIngesting
    /\ UploadsInFlight = {} => ~uploader.isUploading
    /\ IngestsInFlight # {} => uploader.isIngesting
    /\ \A i \in 1..Len(uploader.settled) :
          uploader.settled[i].onUploadSuccess
              = IF OperationSucceeded(uploader.settled[i].outcome)
                THEN 1 ELSE 0

\* an ingest has succeeded, a second one has failed (ingestExcel() threw)
\* and a third is in flight
C26_Witness ==
    /\ Len(uploader.settled) = 2
    /\ uploader.settled[1].handler = "handleIngest"
    /\ uploader.settled[1].onUploadSuccess = 1
    /\ uploader.settled[2].handler = "handleIngestExcel"
    /\ uploader.settled[2].outcome.kind = "rejected"
    /\ uploader.settled[2].onUploadSuccess = 0
    /\ Cardinality(IngestsInFlight) = 1
    /\ uploader.isIngesting

====
